---- MODULE Spec2Model ----
(***************************************************************************)
(* Model of the geoarrow-rs casting engine (src/algorithm/native/cast.rs)  *)
(* and of the MixedGeometryBuilder (src/array/mixed/builder.rs).           *)
(*                                                                         *)
(* A source array is built element by element through the builder of its  *)
(* shape, then `cast` is applied to it.  Arrays are modelled at buffer     *)
(* level: a coordinate buffer, one offset buffer per nesting level and a   *)
(* validity sequence.  Offsets hold the 0-based values the code stores;    *)
(* sequences are indexed from 1.                                           *)
(***************************************************************************)
EXTENDS Integers, Sequences, FiniteSets, TLC

(* ------------------------------ bounds --------------------------------- *)
\* longest source array built
MaxLen == 2
\* most parts (points, lines, polygons, rings) of one pushed element
MaxParts == 2
\* most chunks of a chunked array
MaxChunks == 2
\* the largest narrow offset in the runs that exercise offset overflow: the
\* 32-bit width scaled down
NarrowMax == 3
\* calls of a function that calls itself that fit on the stack
MaxFrames == 3

(* ------------------------------- state --------------------------------- *)
VARIABLES
  builder,         \* the builder of the source array
  pushes,          \* number of push calls made on the builder
  log,             \* the successful pushes: the child pushed into and the value
  call,            \* the last push call: its result and the builder before it
  result,          \* outcome of cast(source, result.to)
  back,            \* outcome of casting result.arr back to the source type
  chunks,          \* finished chunks of a chunked array
  chunked_result,  \* outcome of the chunked cast
  offset_max,      \* largest offset the narrow (32-bit) offset width holds
  geoms,           \* input vector of the constructors that take a vector
  out,             \* outcome of the last operation other than a cast
  meta,            \* the GeoParquetMetadata that try_update updates
  iter,            \* a MultiPointArrayValuesIter and what it has yielded
  table            \* read_postgis: its table builder, row index and stream

vars ==
  <<builder, pushes, log, call, result, back, chunks, chunked_result,
    offset_max, geoms, out, meta, iter, table>>

\* i32::MAX, the largest offset of the 32-bit offset width
I32_MAX == 2147483647

(* --------------------------- GeoDataType ------------------------------- *)
CoordTypes == {"Interleaved", "Separated"}

DT(shape, large, ct) == [shape |-> shape, large |-> large, ct |-> ct]

\* shapes that have both a 32-bit and a 64-bit offset variant
OffsetShapes ==
  {"LineString", "Polygon", "MultiPoint", "MultiLineString", "MultiPolygon",
   "Mixed", "GeometryCollection"}

GeoDataType ==
  {DT("Point", FALSE, ct) : ct \in CoordTypes}
    \cup {DT(s, l, ct) : s \in OffsetShapes, l \in BOOLEAN, ct \in CoordTypes}
    \cup {DT("WKB", l, "None") : l \in BOOLEAN}
    \cup {DT("Rect", FALSE, "None")}

(* ------------------------- coordinate buffers -------------------------- *)
\* A coordinate is the pair <<x, y>>.  The k-th coordinate pushed into a
\* source array is <<k, k + 10>>, so every coordinate is distinct.
Coord(k) == <<k, k + 10>>

\* Interleaved: one flat buffer x,y,x,y,...; Separated: one buffer per axis.
CoordBuffer_new(ct) ==
  [ct |-> ct, coords |-> <<>>, x |-> <<>>, y |-> <<>>]

CoordBuffer_len(cb) ==
  IF cb.ct = "Interleaved" THEN Len(cb.coords) \div 2 ELSE Len(cb.x)

\* i is 0-based, as in the code
get_x(cb, i) ==
  IF cb.ct = "Interleaved" THEN cb.coords[2 * i + 1] ELSE cb.x[i + 1]

get_y(cb, i) ==
  IF cb.ct = "Interleaved" THEN cb.coords[2 * i + 2] ELSE cb.y[i + 1]

CoordBuffer_value(cb, i) == <<get_x(cb, i), get_y(cb, i)>>

push_xy(cb, c) ==
  IF cb.ct = "Interleaved"
    THEN [cb EXCEPT !.coords = Append(Append(@, c[1]), c[2])]
    ELSE [cb EXCEPT !.x = Append(@, c[1]), !.y = Append(@, c[2])]

\* push a sequence of coordinates, in order
push_coords(cb, cs) ==
  LET f[k \in 0..Len(cs)] == IF k = 0 THEN cb ELSE push_xy(f[k - 1], cs[k])
  IN f[Len(cs)]

\* the coordinates start .. end-1 (0-based, end exclusive) as a sequence
CoordRange(cb, start, end) ==
  [k \in 1..(end - start) |-> CoordBuffer_value(cb, start + k - 1)]

(* ------------------------------ offsets -------------------------------- *)
last(offsets) == offsets[Len(offsets)]

\* (offsets[i], offsets[i+1]) for the 0-based run i
start_end(offsets, i) == <<offsets[i + 1], offsets[i + 2]>>

try_push_usize(offsets, n) == Append(offsets, last(offsets) + n)

(* --------------------- arrays of the six plain shapes ------------------ *)
\* One record shape for all: the offset levels a shape does not have stay
\* empty.  A builder and the array it finishes into share the record.
HasGeomOffsets(shape) == shape # "Point"
HasRingOffsets(shape) == shape \in {"Polygon", "MultiLineString", "MultiPolygon"}
HasPolygonOffsets(shape) == shape = "MultiPolygon"

Builder_new(dt) ==
  [dt |-> dt,
   coords |-> CoordBuffer_new(dt.ct),
   geom_offsets |-> IF HasGeomOffsets(dt.shape) THEN <<0>> ELSE <<>>,
   polygon_offsets |-> IF HasPolygonOffsets(dt.shape) THEN <<0>> ELSE <<>>,
   ring_offsets |-> IF HasRingOffsets(dt.shape) THEN <<0>> ELSE <<>>,
   validity |-> <<>>]

Array_len(a) ==
  IF a.dt.shape = "Point" THEN CoordBuffer_len(a.coords)
  ELSE Len(a.geom_offsets) - 1

\* i is 0-based
Array_is_null(a, i) == ~a.validity[i + 1]

(* ------------------------------ scalars -------------------------------- *)
\* A geometry value is [type, v]: v is a coordinate for a Point, a sequence
\* of coordinates for a LineString or MultiPoint, a sequence of rings/lines
\* for a Polygon or MultiLineString, a sequence of polygons for a
\* MultiPolygon.
Geom(type, v) == [type |-> type, v |-> v]

None == [type |-> "None", v |-> <<>>]

\* the rings start .. end-1 of the ring offset buffer
RingRange(a, start, end) ==
  [k \in 1..(end - start) |->
     LET se == start_end(a.ring_offsets, start + k - 1)
     IN CoordRange(a.coords, se[1], se[2])]

\* the polygons start .. end-1 of the polygon offset buffer
PolygonRange(a, start, end) ==
  [k \in 1..(end - start) |->
     LET se == start_end(a.polygon_offsets, start + k - 1)
     IN RingRange(a, se[1], se[2])]

\* the scalar at the 0-based slot i, not looking at validity
Array_value(a, i) ==
  IF a.dt.shape = "Point" THEN Geom("Point", CoordBuffer_value(a.coords, i))
  ELSE LET se == start_end(a.geom_offsets, i) IN
    CASE a.dt.shape \in {"LineString", "MultiPoint"} ->
           Geom(a.dt.shape, CoordRange(a.coords, se[1], se[2]))
      [] a.dt.shape \in {"Polygon", "MultiLineString"} ->
           Geom(a.dt.shape, RingRange(a, se[1], se[2]))
      [] a.dt.shape = "MultiPolygon" ->
           Geom(a.dt.shape, PolygonRange(a, se[1], se[2]))

Array_get(a, i) == IF Array_is_null(a, i) THEN None ELSE Array_value(a, i)

\* array.iter(): the optional scalars in order
Array_iter(a) == [k \in 1..Array_len(a) |-> Array_get(a, k - 1)]

(* ----------------------- results of fallible calls --------------------- *)
\* Result<()> of a push: the builder after the call and whether it returned
\* Ok, returned Err, or panicked
Ok(b) == [st |-> "Ok", b |-> b]

Err(b) == [st |-> "Err", b |-> b]

Panic(b) == [st |-> "Panic", b |-> b]

\* iter.try_for_each(|x| op(builder, x)): stops at the first Err or panic
try_for_each(Op(_, _), items, b0) ==
  LET f[k \in 0..Len(items)] ==
        IF k = 0 THEN Ok(b0)
        ELSE IF f[k - 1].st # "Ok" THEN f[k - 1]
        ELSE Op(f[k - 1].b, items[k])
  IN f[Len(items)]

(* ------------------- builders of the six plain shapes ------------------ *)
\* whether every offset of the builder fits its offset width; the 64-bit
\* width is never exceeded by an array that fits in memory
fits(b) ==
  \/ b.dt.large
  \/ \A f \in {"geom_offsets", "polygon_offsets", "ring_offsets"} :
       b[f] = <<>> \/ last(b[f]) <= offset_max

\* the push that led from b to nb: an offset that does not fit is the
\* overflow error of try_push_usize, and the builder stays as it was
Checked(b, nb) == IF fits(nb) THEN Ok(nb) ELSE Err(b)

\* push the rings (coordinate sequences) of one polygon / multi line string
push_rings(b, rings) ==
  LET f[k \in 0..Len(rings)] ==
        IF k = 0 THEN b
        ELSE [f[k - 1] EXCEPT
                !.coords = push_coords(@, rings[k]),
                !.ring_offsets = try_push_usize(@, Len(rings[k]))]
  IN f[Len(rings)]

\* push the polygons of one multi polygon
push_polygons(b, polygons) ==
  LET f[k \in 0..Len(polygons)] ==
        IF k = 0 THEN b
        ELSE [push_rings(f[k - 1], polygons[k]) EXCEPT
                !.polygon_offsets = try_push_usize(@, Len(polygons[k]))]
  IN f[Len(polygons)]

\* a null element: a zero-length run at the geometry level, no coordinate
push_null(b) ==
  [b EXCEPT !.geom_offsets = try_push_usize(@, 0),
            !.validity = Append(@, FALSE)]

\* a Point array has one coordinate per slot, so a null pushes a placeholder
PointBuilder_push_null(b) ==
  [b EXCEPT !.coords = push_xy(@, <<0, 0>>), !.validity = Append(@, FALSE)]

PointBuilder_push_point(b, value) ==
  IF value.type = "None" THEN PointBuilder_push_null(b)
  ELSE [b EXCEPT !.coords = push_xy(@, value.v), !.validity = Append(@, TRUE)]

LineStringBuilder_push_line_string(b, value) ==
  IF value.type = "None" THEN Ok(push_null(b))
  ELSE Checked(b, [b EXCEPT !.coords = push_coords(@, value.v),
                    !.geom_offsets = try_push_usize(@, Len(value.v)),
                    !.validity = Append(@, TRUE)])

PolygonBuilder_push_polygon(b, value) ==
  IF value.type = "None" THEN Ok(push_null(b))
  ELSE Checked(b, [push_rings(b, value.v) EXCEPT
             !.geom_offsets = try_push_usize(@, Len(value.v)),
             !.validity = Append(@, TRUE)])

MultiPointBuilder_push_point(b, value) ==
  IF value.type = "None" THEN Ok(push_null(b))
  ELSE Checked(b, [b EXCEPT !.coords = push_xy(@, value.v),
                    !.geom_offsets = try_push_usize(@, 1),
                    !.validity = Append(@, TRUE)])

MultiPointBuilder_push_multi_point(b, value) ==
  IF value.type = "None" THEN Ok(push_null(b))
  ELSE Checked(b, [b EXCEPT !.coords = push_coords(@, value.v),
                    !.geom_offsets = try_push_usize(@, Len(value.v)),
                    !.validity = Append(@, TRUE)])

MultiLineStringBuilder_push_line_string(b, value) ==
  IF value.type = "None" THEN Ok(push_null(b))
  ELSE Checked(b, [push_rings(b, <<value.v>>) EXCEPT
             !.geom_offsets = try_push_usize(@, 1),
             !.validity = Append(@, TRUE)])

MultiLineStringBuilder_push_multi_line_string(b, value) ==
  IF value.type = "None" THEN Ok(push_null(b))
  ELSE Checked(b, [push_rings(b, value.v) EXCEPT
             !.geom_offsets = try_push_usize(@, Len(value.v)),
             !.validity = Append(@, TRUE)])

MultiPolygonBuilder_push_polygon(b, value) ==
  IF value.type = "None" THEN Ok(push_null(b))
  ELSE Checked(b, [push_polygons(b, <<value.v>>) EXCEPT
             !.geom_offsets = try_push_usize(@, 1),
             !.validity = Append(@, TRUE)])

MultiPolygonBuilder_push_multi_polygon(b, value) ==
  IF value.type = "None" THEN Ok(push_null(b))
  ELSE Checked(b, [push_polygons(b, value.v) EXCEPT
             !.geom_offsets = try_push_usize(@, Len(value.v)),
             !.validity = Append(@, TRUE)])

\* push_geometry of a plain builder: takes the builder's own shape; a
\* single-shape builder also takes the multi shape holding exactly one
\* part, a multi-shape builder also takes the single shape; anything else
\* is an error
PointBuilder_push_geometry(b, value) ==
  CASE value.type = "None" -> Ok(PointBuilder_push_null(b))
    [] value.type = "Point" -> Ok(PointBuilder_push_point(b, value))
    [] value.type = "MultiPoint" /\ Len(value.v) = 1 ->
         Ok(PointBuilder_push_point(b, Geom("Point", value.v[1])))
    [] OTHER -> Err(b)

LineStringBuilder_push_geometry(b, value) ==
  CASE value.type = "None" -> Ok(push_null(b))
    [] value.type = "LineString" -> LineStringBuilder_push_line_string(b, value)
    [] value.type = "MultiLineString" /\ Len(value.v) = 1 ->
         LineStringBuilder_push_line_string(b, Geom("LineString", value.v[1]))
    [] OTHER -> Err(b)

PolygonBuilder_push_geometry(b, value) ==
  CASE value.type = "None" -> Ok(push_null(b))
    [] value.type = "Polygon" -> PolygonBuilder_push_polygon(b, value)
    [] value.type = "MultiPolygon" /\ Len(value.v) = 1 ->
         PolygonBuilder_push_polygon(b, Geom("Polygon", value.v[1]))
    [] OTHER -> Err(b)

MultiPointBuilder_push_geometry(b, value) ==
  CASE value.type = "None" -> Ok(push_null(b))
    [] value.type = "Point" -> MultiPointBuilder_push_point(b, value)
    [] value.type = "MultiPoint" -> MultiPointBuilder_push_multi_point(b, value)
    [] OTHER -> Err(b)

MultiLineStringBuilder_push_geometry(b, value) ==
  CASE value.type = "None" -> Ok(push_null(b))
    [] value.type = "LineString" -> MultiLineStringBuilder_push_line_string(b, value)
    [] value.type = "MultiLineString" ->
         MultiLineStringBuilder_push_multi_line_string(b, value)
    [] OTHER -> Err(b)

MultiPolygonBuilder_push_geometry(b, value) ==
  CASE value.type = "None" -> Ok(push_null(b))
    [] value.type = "Polygon" -> MultiPolygonBuilder_push_polygon(b, value)
    [] value.type = "MultiPolygon" ->
         MultiPolygonBuilder_push_multi_polygon(b, value)
    [] OTHER -> Err(b)

(* ------------------------ MixedGeometryBuilder ------------------------- *)
\* the type tag stored in `types` for each child
default_ordering(shape) ==
  CASE shape = "Point" -> 0
    [] shape = "LineString" -> 1
    [] shape = "Polygon" -> 2
    [] shape = "MultiPoint" -> 3
    [] shape = "MultiLineString" -> 4
    [] shape = "MultiPolygon" -> 5

\* the child a type tag selects
child_of(tag) ==
  CASE tag = 0 -> "points"
    [] tag = 1 -> "line_strings"
    [] tag = 2 -> "polygons"
    [] tag = 3 -> "multi_points"
    [] tag = 4 -> "multi_line_strings"
    [] tag = 5 -> "multi_polygons"

ChildNames ==
  {"points", "line_strings", "polygons", "multi_points",
   "multi_line_strings", "multi_polygons"}

\* dt is the Mixed data type (offset width and coordinate type) of the
\* builder; every child shares both
MixedGeometryBuilder_new(dt) ==
  [dt |-> dt,
   types |-> <<>>,
   points |-> Builder_new(DT("Point", FALSE, dt.ct)),
   line_strings |-> Builder_new(DT("LineString", dt.large, dt.ct)),
   polygons |-> Builder_new(DT("Polygon", dt.large, dt.ct)),
   multi_points |-> Builder_new(DT("MultiPoint", dt.large, dt.ct)),
   multi_line_strings |-> Builder_new(DT("MultiLineString", dt.large, dt.ct)),
   multi_polygons |-> Builder_new(DT("MultiPolygon", dt.large, dt.ct)),
   point_counter |-> 0,
   line_string_counter |-> 0,
   polygon_counter |-> 0,
   multi_point_counter |-> 0,
   multi_line_string_counter |-> 0,
   multi_polygon_counter |-> 0,
   offsets |-> <<>>]

push_point(mb, value) ==
  [mb EXCEPT !.offsets = Append(@, mb.point_counter),
             !.point_counter = @ + 1,
             !.types = Append(@, default_ordering("Point")),
             !.points = PointBuilder_push_point(@, value)]

push_point_as_multi_point(mb, value) ==
  LET r == MultiPointBuilder_push_point(mb.multi_points, value) IN
  [st |-> r.st,
   b |-> [mb EXCEPT !.offsets = Append(@, mb.multi_point_counter),
                    !.multi_point_counter = @ + 1,
                    !.types = Append(@, default_ordering("MultiPoint")),
                    !.multi_points = r.b]]

push_line_string(mb, value) ==
  LET r == LineStringBuilder_push_line_string(mb.line_strings, value) IN
  [st |-> r.st,
   b |-> [mb EXCEPT !.offsets = Append(@, mb.line_string_counter),
                    !.line_string_counter = @ + 1,
                    !.types = Append(@, default_ordering("LineString")),
                    !.line_strings = r.b]]

push_line_string_as_multi_line_string(mb, value) ==
  LET r == MultiLineStringBuilder_push_line_string(mb.multi_line_strings, value) IN
  [st |-> r.st,
   b |-> [mb EXCEPT !.offsets = Append(@, mb.multi_line_string_counter),
                    !.multi_line_string_counter = @ + 1,
                    !.types = Append(@, default_ordering("MultiLineString")),
                    !.multi_line_strings = r.b]]

push_polygon(mb, value) ==
  LET r == PolygonBuilder_push_polygon(mb.polygons, value) IN
  [st |-> r.st,
   b |-> [mb EXCEPT !.offsets = Append(@, mb.polygon_counter),
                    !.polygon_counter = @ + 1,
                    !.types = Append(@, default_ordering("Polygon")),
                    !.polygons = r.b]]

push_polygon_as_multi_polygon(mb, value) ==
  LET r == MultiPolygonBuilder_push_polygon(mb.multi_polygons, value) IN
  [st |-> r.st,
   b |-> [mb EXCEPT !.offsets = Append(@, mb.multi_polygon_counter),
                    !.multi_polygon_counter = @ + 1,
                    !.types = Append(@, default_ordering("MultiPolygon")),
                    !.multi_polygons = r.b]]

\* (the variant records the offset from the counter of the points child)
push_multi_point_point_counter(mb, value) ==
  LET r == MultiPointBuilder_push_multi_point(mb.multi_points, value) IN
  [st |-> r.st,
   b |-> [mb EXCEPT !.offsets = Append(@, mb.point_counter),
                    !.multi_point_counter = @ + 1,
                    !.types = Append(@, default_ordering("MultiPoint")),
                    !.multi_points = r.b]]

push_multi_point(mb, value) ==
  LET r == MultiPointBuilder_push_multi_point(mb.multi_points, value) IN
  [st |-> r.st,
   b |-> [mb EXCEPT !.offsets = Append(@, mb.multi_point_counter),
                    !.multi_point_counter = @ + 1,
                    !.types = Append(@, default_ordering("MultiPoint")),
                    !.multi_points = r.b]]

push_multi_line_string(mb, value) ==
  LET r == MultiLineStringBuilder_push_multi_line_string(mb.multi_line_strings, value) IN
  [st |-> r.st,
   b |-> [mb EXCEPT !.offsets = Append(@, mb.multi_line_string_counter),
                    !.multi_line_string_counter = @ + 1,
                    !.types = Append(@, default_ordering("MultiLineString")),
                    !.multi_line_strings = r.b]]

push_multi_polygon(mb, value) ==
  LET r == MultiPolygonBuilder_push_multi_polygon(mb.multi_polygons, value) IN
  [st |-> r.st,
   b |-> [mb EXCEPT !.offsets = Append(@, mb.multi_polygon_counter),
                    !.multi_polygon_counter = @ + 1,
                    !.types = Append(@, default_ordering("MultiPolygon")),
                    !.multi_polygons = r.b]]

\* a null value reaches todo!(), a geometry collection reaches panic!()
push_geometry(mb, value) ==
  CASE value.type = "None" -> Panic(mb)
    [] value.type = "Point" -> Ok(push_point(mb, value))
    [] value.type = "LineString" -> push_line_string(mb, value)
    [] value.type = "Polygon" -> push_polygon(mb, value)
    [] value.type = "MultiPoint" -> push_multi_point(mb, value)
    [] value.type = "MultiLineString" -> push_multi_line_string(mb, value)
    [] value.type = "MultiPolygon" -> push_multi_polygon(mb, value)
    [] OTHER -> Panic(mb)

(* -------------------------- MixedGeometryArray ------------------------- *)
\* From<MixedGeometryBuilder>: types, offsets and the six finished
\* children; the counters are dropped and no validity is passed on
MixedGeometryBuilder_finish(mb) ==
  [dt |-> mb.dt,
   types |-> mb.types,
   offsets |-> mb.offsets,
   points |-> mb.points,
   line_strings |-> mb.line_strings,
   polygons |-> mb.polygons,
   multi_points |-> mb.multi_points,
   multi_line_strings |-> mb.multi_line_strings,
   multi_polygons |-> mb.multi_polygons]

Mixed_len(a) == Len(a.types)

\* the scalar of slot i (0-based): slot offsets[i] of the child types[i]
Mixed_value(a, i) == Array_value(a[child_of(a.types[i + 1])], a.offsets[i + 1])

\* A Mixed array carries no validity of its own, so every slot reads as
\* valid: a null stored in a child is seen as that child's (empty) value.
Mixed_iter(a) == [k \in 1..Mixed_len(a) |-> Mixed_value(a, k - 1)]

has_points(a) == Array_len(a.points) > 0
has_line_strings(a) == Array_len(a.line_strings) > 0
has_polygons(a) == Array_len(a.polygons) > 0
has_multi_points(a) == Array_len(a.multi_points) > 0
has_multi_line_strings(a) == Array_len(a.multi_line_strings) > 0
has_multi_polygons(a) == Array_len(a.multi_polygons) > 0

(* ------------------ MixedGeometryBuilder from geometries --------------- *)
\* MixedCapacity: the number of geometries counted for each child
MixedCapacity_new_empty == [c \in ChildNames |-> 0]

total_num_geoms(capacity) ==
  capacity.points + capacity.line_strings + capacity.polygons
    + capacity.multi_points + capacity.multi_line_strings
    + capacity.multi_polygons

\* add_geometry: a null is not counted ("we don't know which type they
\* have"), a geometry collection reaches panic!()
add_geometry(capacity, geom) ==
  CASE geom.type = "None" -> Ok(capacity)
    [] geom.type = "Point" -> Ok([capacity EXCEPT !.points = @ + 1])
    [] geom.type = "LineString" -> Ok([capacity EXCEPT !.line_strings = @ + 1])
    [] geom.type = "Polygon" -> Ok([capacity EXCEPT !.polygons = @ + 1])
    [] geom.type = "MultiPoint" -> Ok([capacity EXCEPT !.multi_points = @ + 1])
    [] geom.type = "MultiLineString" ->
         Ok([capacity EXCEPT !.multi_line_strings = @ + 1])
    [] geom.type = "MultiPolygon" ->
         Ok([capacity EXCEPT !.multi_polygons = @ + 1])
    [] OTHER -> Panic(capacity)

MixedCapacity_from_geometries(input) ==
  try_for_each(add_geometry, input, MixedCapacity_new_empty)

\* extend_from_iter: try_for_each(push_geometry) and unwrap()
extend_from_iter(mb, input) ==
  LET r == try_for_each(push_geometry, input, mb)
  IN IF r.st = "Ok" THEN r ELSE Panic(r.b)

\* from_nullable_geometries: the capacity is counted, then every element is
\* pushed; the result is [kind, b, capacity]
from_nullable_geometries(input, dt) ==
  LET counter == MixedCapacity_from_geometries(input) IN
  IF counter.st # "Ok"
    THEN [kind |-> "Panic", b |-> MixedGeometryBuilder_new(dt),
          capacity |-> counter.b]
    ELSE LET r == extend_from_iter(MixedGeometryBuilder_new(dt), input)
         IN [kind |-> r.st, b |-> r.b, capacity |-> counter.b]

(* ---------------------- GeometryCollectionBuilder ---------------------- *)
GeometryCollectionBuilder_new(dt) ==
  [dt |-> dt,
   geoms |-> MixedGeometryBuilder_new(DT("Mixed", dt.large, dt.ct)),
   geom_offsets |-> <<0>>,
   validity |-> <<>>]

\* one collection holding the one geometry the inner push stored; a null is
\* an empty, invalid collection
GC_close(gb, value, r) ==
  IF value.type = "None"
    THEN Ok([gb EXCEPT !.geom_offsets = try_push_usize(@, 0),
                       !.validity = Append(@, FALSE)])
    ELSE [st |-> r.st,
          b |-> [gb EXCEPT !.geoms = r.b,
                           !.geom_offsets = try_push_usize(@, 1),
                           !.validity = Append(@, TRUE)]]

GC_push_point(gb, value) == GC_close(gb, value, Ok(push_point(gb.geoms, value)))
GC_push_line_string(gb, value) == GC_close(gb, value, push_line_string(gb.geoms, value))
GC_push_polygon(gb, value) == GC_close(gb, value, push_polygon(gb.geoms, value))
GC_push_multi_point(gb, value) == GC_close(gb, value, push_multi_point(gb.geoms, value))
GC_push_multi_line_string(gb, value) ==
  GC_close(gb, value, push_multi_line_string(gb.geoms, value))
GC_push_multi_polygon(gb, value) ==
  GC_close(gb, value, push_multi_polygon(gb.geoms, value))

GC_push_geometry(gb, value) ==
  IF value.type = "None" THEN GC_close(gb, value, Ok(gb.geoms))
  ELSE GC_close(gb, value, push_geometry(gb.geoms, value))

GeometryCollectionBuilder_finish(gb) ==
  [dt |-> gb.dt,
   array |-> MixedGeometryBuilder_finish(gb.geoms),
   geom_offsets |-> gb.geom_offsets,
   validity |-> gb.validity]

(* ------------------------------- cast ---------------------------------- *)
\* Result<Arc<dyn GeometryArrayTrait>>; a panic is the third outcome
NoArray == [dt |-> DT("None", FALSE, "None")]

CastOk(arr) == [kind |-> "Ok", arr |-> arr]

CastErr == [kind |-> "Err", arr |-> NoArray]

CastPanic == [kind |-> "Panic", arr |-> NoArray]

\* `...?; Ok(Arc::new(builder.finish()))` for a plain builder
finish(r) ==
  CASE r.st = "Ok" -> CastOk(r.b)
    [] r.st = "Err" -> CastErr
    [] OTHER -> CastPanic

finish_mixed(r) ==
  CASE r.st = "Ok" -> CastOk(MixedGeometryBuilder_finish(r.b))
    [] r.st = "Err" -> CastErr
    [] OTHER -> CastPanic

finish_gc(r) ==
  CASE r.st = "Ok" -> CastOk(GeometryCollectionBuilder_finish(r.b))
    [] r.st = "Err" -> CastErr
    [] OTHER -> CastPanic

\* the infallible pushes, as steps of the same iteration
Ok_PointBuilder_push_point(b, value) == Ok(PointBuilder_push_point(b, value))

Ok_push_point(mb, value) == Ok(push_point(mb, value))

can_cast_types(from_type, to_type) ==
  IF from_type = to_type THEN "true"
  ELSE CASE from_type.shape = "Point" /\ ~to_type.large
              /\ to_type.shape \in {"Point", "MultiPoint"} -> "true"
         [] from_type.shape = "LineString" /\ ~from_type.large /\ ~to_type.large
              /\ to_type.shape \in {"LineString", "MultiLineString"} -> "true"
         [] from_type.shape = "Polygon" /\ ~from_type.large /\ ~to_type.large
              /\ to_type.shape \in {"Polygon", "MultiPolygon"} -> "true"
         [] from_type.shape = "MultiPoint" /\ ~from_type.large /\ ~to_type.large
              /\ to_type.shape = "MultiPoint" -> "true"
         [] from_type.shape = "MultiLineString" /\ ~from_type.large /\ ~to_type.large
              /\ to_type.shape = "MultiLineString" -> "true"
         [] from_type.shape = "MultiPolygon" /\ ~from_type.large /\ ~to_type.large
              /\ to_type.shape = "MultiPolygon" -> "true"
         [] OTHER -> "todo"

\* The MultiPoint / LargeMultiPoint arm of cast_point_array.  The variant
\* iterates over the non-null points only, as a flattened iterator would.
cast_point_to_multi_point_flatten(array, to_type) ==
  finish(try_for_each(MultiPointBuilder_push_point,
                      SelectSeq(Array_iter(array), LAMBDA g : g # None),
                      Builder_new(to_type)))

cast_point_to_multi_point(array, to_type) ==
  finish(try_for_each(MultiPointBuilder_push_point, Array_iter(array),
                      Builder_new(to_type)))

cast_point_array(array, to_type) ==
  CASE to_type.shape = "Point" ->
         finish(try_for_each(Ok_PointBuilder_push_point, Array_iter(array),
                             Builder_new(to_type)))
    [] to_type.shape = "MultiPoint" -> cast_point_to_multi_point(array, to_type)
    [] to_type.shape = "Mixed" ->
         finish_mixed(try_for_each(Ok_push_point, Array_iter(array),
                                   MixedGeometryBuilder_new(to_type)))
    [] to_type.shape = "GeometryCollection" ->
         finish_gc(try_for_each(GC_push_point, Array_iter(array),
                                GeometryCollectionBuilder_new(to_type)))
    [] OTHER -> CastErr

cast_line_string_array(array, to_type) ==
  CASE to_type.shape = "LineString" ->
         finish(try_for_each(LineStringBuilder_push_line_string, Array_iter(array),
                             Builder_new(to_type)))
    [] to_type.shape = "MultiLineString" ->
         finish(try_for_each(MultiLineStringBuilder_push_line_string,
                             Array_iter(array), Builder_new(to_type)))
    [] to_type.shape = "Mixed" ->
         finish_mixed(try_for_each(push_line_string, Array_iter(array),
                                   MixedGeometryBuilder_new(to_type)))
    [] to_type.shape = "GeometryCollection" ->
         finish_gc(try_for_each(GC_push_line_string, Array_iter(array),
                                GeometryCollectionBuilder_new(to_type)))
    [] OTHER -> CastErr

cast_polygon_array(array, to_type) ==
  CASE to_type.shape = "Polygon" ->
         finish(try_for_each(PolygonBuilder_push_polygon, Array_iter(array),
                             Builder_new(to_type)))
    [] to_type.shape = "MultiPolygon" ->
         finish(try_for_each(MultiPolygonBuilder_push_polygon, Array_iter(array),
                             Builder_new(to_type)))
    [] to_type.shape = "Mixed" ->
         finish_mixed(try_for_each(push_polygon, Array_iter(array),
                                   MixedGeometryBuilder_new(to_type)))
    [] to_type.shape = "GeometryCollection" ->
         finish_gc(try_for_each(GC_push_polygon, Array_iter(array),
                                GeometryCollectionBuilder_new(to_type)))
    [] OTHER -> CastErr

\* x.map(|mp| mp.point(0).unwrap()): the first part of a valid element; the
\* unwrap panics when the element has no part
first_part(value, type) ==
  IF value.type = "None" THEN Ok(None)
  ELSE IF Len(value.v) = 0 THEN Panic(None)
  ELSE Ok(Geom(type, value.v[1]))

push_first_point(b, value) ==
  LET p == first_part(value, "Point") IN
  IF p.st = "Panic" THEN Panic(b) ELSE Ok(PointBuilder_push_point(b, p.b))

push_first_line(b, value) ==
  LET p == first_part(value, "LineString") IN
  IF p.st = "Panic" THEN Panic(b) ELSE LineStringBuilder_push_line_string(b, p.b)

push_first_polygon(b, value) ==
  LET p == first_part(value, "Polygon") IN
  IF p.st = "Panic" THEN Panic(b) ELSE PolygonBuilder_push_polygon(b, p.b)

\* The Point arm of cast_multi_point_array.  The variant takes the test of
\* the offsets the other way round.
cast_multi_point_to_point_inverted(array, to_type) ==
  IF last(array.geom_offsets) = Array_len(array) THEN CastErr
  ELSE finish(try_for_each(push_first_point, Array_iter(array),
                           Builder_new(to_type)))

cast_multi_point_to_point(array, to_type) ==
  IF last(array.geom_offsets) # Array_len(array) THEN CastErr
  ELSE finish(try_for_each(push_first_point, Array_iter(array),
                           Builder_new(to_type)))

cast_multi_point_array(array, to_type) ==
  CASE to_type.shape = "Point" -> cast_multi_point_to_point(array, to_type)
    [] to_type.shape = "MultiPoint" ->
         finish(try_for_each(MultiPointBuilder_push_multi_point, Array_iter(array),
                             Builder_new(to_type)))
    [] to_type.shape = "Mixed" ->
         finish_mixed(try_for_each(push_multi_point, Array_iter(array),
                                   MixedGeometryBuilder_new(to_type)))
    [] to_type.shape = "GeometryCollection" ->
         finish_gc(try_for_each(GC_push_multi_point, Array_iter(array),
                                GeometryCollectionBuilder_new(to_type)))
    [] OTHER -> CastErr

cast_multi_line_string_array(array, to_type) ==
  CASE to_type.shape = "LineString" ->
         IF last(array.geom_offsets) # Array_len(array) THEN CastErr
         ELSE finish(try_for_each(push_first_line, Array_iter(array),
                                  Builder_new(to_type)))
    [] to_type.shape = "Mixed" ->
         finish_mixed(try_for_each(push_multi_line_string, Array_iter(array),
                                   MixedGeometryBuilder_new(to_type)))
    [] to_type.shape = "GeometryCollection" ->
         finish_gc(try_for_each(GC_push_multi_line_string, Array_iter(array),
                                GeometryCollectionBuilder_new(to_type)))
    [] OTHER -> CastErr

cast_multi_polygon_array(array, to_type) ==
  CASE to_type.shape = "Polygon" ->
         IF last(array.geom_offsets) # Array_len(array) THEN CastErr
         ELSE finish(try_for_each(push_first_polygon, Array_iter(array),
                                  Builder_new(to_type)))
    [] to_type.shape = "Mixed" ->
         finish_mixed(try_for_each(push_multi_polygon, Array_iter(array),
                                   MixedGeometryBuilder_new(to_type)))
    [] to_type.shape = "GeometryCollection" ->
         finish_gc(try_for_each(GC_push_multi_polygon, Array_iter(array),
                                GeometryCollectionBuilder_new(to_type)))
    [] OTHER -> CastErr

\* The Point arm of cast_mixed_array.  The variant unwraps where the code
\* returns the error, so a foreign child aborts the cast.
cast_mixed_to_point_unwrap(array, to_type) ==
  IF has_line_strings(array) \/ has_polygons(array)
       \/ has_multi_line_strings(array) \/ has_multi_polygons(array)
    THEN CastPanic
  ELSE finish(try_for_each(PointBuilder_push_geometry, Mixed_iter(array),
                           Builder_new(to_type)))

cast_mixed_to_point(array, to_type) ==
  IF has_line_strings(array) \/ has_polygons(array)
       \/ has_multi_line_strings(array) \/ has_multi_polygons(array)
    THEN CastErr
  ELSE finish(try_for_each(PointBuilder_push_geometry, Mixed_iter(array),
                           Builder_new(to_type)))

cast_mixed_array(array, to_type) ==
  CASE to_type.shape = "Point" -> cast_mixed_to_point(array, to_type)
    [] to_type.shape = "LineString" ->
         IF has_points(array) \/ has_polygons(array)
              \/ has_multi_points(array) \/ has_multi_polygons(array)
           THEN CastErr
         ELSE IF last(array.multi_line_strings.geom_offsets)
                   # Array_len(array.multi_line_strings)
           THEN CastErr
         ELSE finish(try_for_each(LineStringBuilder_push_geometry,
                                  Mixed_iter(array), Builder_new(to_type)))
    [] to_type.shape = "Polygon" ->
         IF has_points(array) \/ has_line_strings(array)
              \/ has_multi_points(array) \/ has_multi_line_strings(array)
           THEN CastErr
         ELSE IF last(array.multi_polygons.geom_offsets)
                   # Array_len(array.multi_polygons)
           THEN CastErr
         ELSE finish(try_for_each(PolygonBuilder_push_geometry,
                                  Mixed_iter(array), Builder_new(to_type)))
    [] to_type.shape = "MultiPoint" ->
         IF has_line_strings(array) \/ has_polygons(array)
              \/ has_multi_line_strings(array) \/ has_multi_polygons(array)
           THEN CastErr
         ELSE finish(try_for_each(MultiPointBuilder_push_geometry,
                                  Mixed_iter(array), Builder_new(to_type)))
    [] to_type.shape = "MultiLineString" ->
         IF has_points(array) \/ has_polygons(array)
              \/ has_multi_points(array) \/ has_multi_polygons(array)
           THEN CastErr
         ELSE finish(try_for_each(MultiLineStringBuilder_push_geometry,
                                  Mixed_iter(array), Builder_new(to_type)))
    [] to_type.shape = "MultiPolygon" ->
         IF has_points(array) \/ has_line_strings(array)
              \/ has_multi_points(array) \/ has_multi_line_strings(array)
           THEN CastErr
         ELSE finish(try_for_each(MultiPolygonBuilder_push_geometry,
                                  Mixed_iter(array), Builder_new(to_type)))
    [] to_type.shape = "Mixed" ->
         finish_mixed(try_for_each(push_geometry, Mixed_iter(array),
                                   MixedGeometryBuilder_new(to_type)))
    [] to_type.shape = "GeometryCollection" ->
         finish_gc(try_for_each(GC_push_geometry, Mixed_iter(array),
                                GeometryCollectionBuilder_new(to_type)))
    [] OTHER -> CastErr

\* impl Cast for &dyn GeometryArrayTrait: dispatch on the source data type;
\* GeometryCollection, WKB and Rect sources reach todo!()
cast(array, to_type) ==
  CASE array.dt.shape = "Point" -> cast_point_array(array, to_type)
    [] array.dt.shape = "LineString" -> cast_line_string_array(array, to_type)
    [] array.dt.shape = "Polygon" -> cast_polygon_array(array, to_type)
    [] array.dt.shape = "MultiPoint" -> cast_multi_point_array(array, to_type)
    [] array.dt.shape = "MultiLineString" ->
         cast_multi_line_string_array(array, to_type)
    [] array.dt.shape = "MultiPolygon" -> cast_multi_polygon_array(array, to_type)
    [] array.dt.shape = "Mixed" -> cast_mixed_array(array, to_type)
    [] OTHER -> CastPanic

(* ---------------------------- chunked cast ----------------------------- *)
\* the array type the `as_*` method named in the match arm downcasts to
downcast_type(to_type) ==
  CASE to_type.shape = "MultiPolygon" -> [shape |-> "Polygon", large |-> to_type.large]
    [] OTHER -> [shape |-> to_type.shape, large |-> to_type.large]

ChunkedOk(cs) == [kind |-> "Ok", chunks |-> cs]

ChunkedErr == [kind |-> "Err", chunks |-> <<>>]

ChunkedPanic == [kind |-> "Panic", chunks |-> <<>>]

\* impl Cast for &dyn ChunkedGeometryArrayTrait: each chunk is cast and
\* downcast in order; the first Err ends the collect, a failed downcast
\* panics
chunked_cast(geometry_chunks, to_type) ==
  LET want == downcast_type(to_type)
      f[k \in 0..Len(geometry_chunks)] ==
        IF k = 0 THEN ChunkedOk(<<>>)
        ELSE IF f[k - 1].kind # "Ok" THEN f[k - 1]
        ELSE LET r == cast(geometry_chunks[k], to_type) IN
             CASE r.kind = "Err" -> ChunkedErr
               [] r.kind = "Panic" -> ChunkedPanic
               [] r.arr.dt.shape # want.shape \/ r.arr.dt.large # want.large ->
                    ChunkedPanic
               [] OTHER -> ChunkedOk(Append(f[k - 1].chunks, r.arr))
  IN f[Len(geometry_chunks)]

(* ------------------ MutableMultiLineStringArray (two pass) ------------- *)
\* Option<Bitmap>: absent, or one bit per element
NoBitmap == [present |-> FALSE, bits |-> <<>>]

SomeBitmap(bits) == [present |-> TRUE, bits |-> bits]

unset_bits(bits) == Cardinality({i \in DOMAIN bits : ~bits[i]})

\* try_push_usize(n) returns the overflow error
overflows(offsets, n, large) == ~large /\ last(offsets) + n > offset_max

\* The inner loop of first_pass: one ring offset per line string,
\* unwrapped.  The variant leaves out the line strings without coordinates.
first_pass_rings_skip_empty(ring_offsets, lines, large) ==
  LET f[k \in 0..Len(lines)] ==
        IF k = 0 THEN Ok(ring_offsets)
        ELSE IF f[k - 1].st # "Ok" THEN f[k - 1]
        ELSE IF overflows(f[k - 1].b, Len(lines[k]), large)
          THEN Panic(f[k - 1].b)
        ELSE IF Len(lines[k]) = 0 THEN f[k - 1]
        ELSE Ok(try_push_usize(f[k - 1].b, Len(lines[k])))
  IN f[Len(lines)]

first_pass_rings(ring_offsets, lines, large) ==
  LET f[k \in 0..Len(lines)] ==
        IF k = 0 THEN Ok(ring_offsets)
        ELSE IF f[k - 1].st # "Ok" THEN f[k - 1]
        ELSE IF overflows(f[k - 1].b, Len(lines[k]), large)
          THEN Panic(f[k - 1].b)
        ELSE Ok(try_push_usize(f[k - 1].b, Len(lines[k])))
  IN f[Len(lines)]

\* The else branch of first_pass, for a None element.  The variant marks
\* the element null and forgets its run in the geometry offsets.
first_pass_null_no_run(p) == [p EXCEPT !.validity = Append(@, FALSE)]

first_pass_null(p) ==
  [p EXCEPT !.validity = Append(@, FALSE),
            !.geom_offsets = try_push_usize(@, 0)]

\* first_pass: validity and the two offset buffers
first_pass(input, large) ==
  LET f[k \in 0..Len(input)] ==
        IF k = 0
          THEN [st |-> "Ok", validity |-> <<>>, geom_offsets |-> <<0>>,
                ring_offsets |-> <<0>>]
        ELSE LET p == f[k - 1]
                 g == input[k]
             IN IF p.st # "Ok" THEN p
                ELSE IF g.type = "None" THEN first_pass_null(p)
                ELSE IF overflows(p.geom_offsets, Len(g.v), large)
                  THEN [p EXCEPT !.st = "Panic"]
                ELSE LET r == first_pass_rings(p.ring_offsets, g.v, large) IN
                     [st |-> r.st,
                      validity |-> Append(p.validity, TRUE),
                      geom_offsets |-> try_push_usize(p.geom_offsets, Len(g.v)),
                      ring_offsets |-> r.b]
      done == f[Len(input)]
  IN [done EXCEPT !.validity = IF unset_bits(@) = 0 THEN NoBitmap
                               ELSE SomeBitmap(@)]

\* the coordinates of every line of every non-null element, in order
second_pass_coords(input) ==
  LET f[k \in 0..Len(input)] ==
        IF k = 0 THEN CoordBuffer_new("Interleaved")
        ELSE IF input[k].type = "None" THEN f[k - 1]
        ELSE LET lines == input[k].v
                 h[j \in 0..Len(lines)] ==
                   IF j = 0 THEN f[k - 1] ELSE push_coords(h[j - 1], lines[j])
             IN h[Len(lines)]
  IN f[Len(input)]

\* second_pass: the coordinate buffer, and the builder put together
second_pass(input, large, geom_offsets, ring_offsets, validity) ==
  [dt |-> DT("MultiLineString", large, "Interleaved"),
   coords |-> second_pass_coords(input),
   geom_offsets |-> geom_offsets,
   polygon_offsets |-> <<>>,
   ring_offsets |-> ring_offsets,
   validity |-> validity]

\* From<MutableMultiLineStringArray> for MultiLineStringArray
MultiLineStringArray_from(other) ==
  [other EXCEPT !.validity =
     IF @.present /\ unset_bits(@.bits) = 0 THEN NoBitmap ELSE @]

\* From<Vec<Option<geo::MultiLineString>>>, then the conversion to the array
MultiLineStringArray_from_vec(input, large) ==
  LET fp == first_pass(input, large) IN
  IF fp.st # "Ok" THEN [kind |-> "Panic", arr |-> NoArray]
  ELSE [kind |-> "Ok",
        arr |-> MultiLineStringArray_from(
                  second_pass(input, large, fp.geom_offsets, fp.ring_offsets,
                              fp.validity))]

\* is_null of an array whose validity is optional (i is 0-based)
is_null(a, i) == a.validity.present /\ ~a.validity.bits[i + 1]

(* ------------------------ LineStringArray::slice ----------------------- *)
\* The array a plain builder finishes into, as From<MutableMultiLineString
\* Array> does it for its sibling: the validity is kept only if a bit is
\* unset
Array_from(b) ==
  [b EXCEPT !.validity = IF unset_bits(@) = 0 THEN NoBitmap ELSE SomeBitmap(@)]

\* the optional scalars of a finished array in order: None at a null slot
Finished_iter(a) ==
  [k \in 1..Array_len(a) |->
     IF is_null(a, k - 1) THEN None ELSE Array_value(a, k - 1)]

\* The validity of slice_unchecked: the bitmap is sliced and kept only if
\* the window has an unset bit.  The variant keeps every sliced bitmap.
slice_validity_keep(validity, offset, length) ==
  IF ~validity.present THEN NoBitmap
  ELSE SomeBitmap(SubSeq(validity.bits, offset + 1, offset + length))

slice_validity(validity, offset, length) ==
  IF ~validity.present THEN NoBitmap
  ELSE LET bitmap == SubSeq(validity.bits, offset + 1, offset + length) IN
       IF unset_bits(bitmap) > 0 THEN SomeBitmap(bitmap) ELSE NoBitmap

\* slice_unchecked: length + 1 offsets from offset on, the coordinates are
\* shared whole.  The variant takes length offsets.
slice_unchecked_short(a, offset, length) ==
  [a EXCEPT !.validity = slice_validity(@, offset, length),
            !.geom_offsets = SubSeq(@, offset + 1, offset + length)]

slice_unchecked(a, offset, length) ==
  [a EXCEPT !.validity = slice_validity(@, offset, length),
            !.geom_offsets = SubSeq(@, offset + 1, offset + length + 1)]

\* slice: asserts offset + length <= self.len()
LineStringArray_slice(a, offset, length) ==
  IF offset + length <= Array_len(a)
    THEN [kind |-> "Ok", arr |-> slice_unchecked(a, offset, length)]
    ELSE [kind |-> "Panic", arr |-> NoArray]

(* --------------------------------- WKB --------------------------------- *)
\* write_u32::<LittleEndian>
write_u32(n) ==
  <<n % 256, (n \div 256) % 256, (n \div 65536) % 256, (n \div 16777216) % 256>>

\* write_f64::<LittleEndian>: the IEEE 754 binary64 bytes of a whole number
\* 0 <= x < 2^20 (sign 0, exponent 1023 + e, the top 20 fraction bits)
write_f64(x) ==
  IF x = 0 THEN <<0, 0, 0, 0, 0, 0, 0, 0>>
  ELSE LET Pow2[n \in 0..20] == IF n = 0 THEN 1 ELSE 2 * Pow2[n - 1]
           e == CHOOSE n \in 0..19 : Pow2[n] <= x /\ x < Pow2[n + 1]
           exponent == 1023 + e
           fraction == (x - Pow2[e]) * Pow2[20 - e]
       IN <<0, 0, 0, 0,
            fraction % 256,
            (fraction \div 256) % 256,
            (exponent % 16) * 16 + fraction \div 65536,
            exponent \div 16>>

\* The size of a WKBPoint
POINT_WKB_SIZE == 1 + 4 + 8 + 8

\* write_point_as_wkb: byte order, wkbType = 1, x, y
write_point_as_wkb(point) ==
  <<1>> \o write_u32(1) \o write_f64(point.v[1]) \o write_f64(point.v[2])

\* BinaryArray::new: try_new(..).unwrap(), which refuses a validity whose
\* length is not the number of values.  A WKBArray is [offsets, values,
\* validity].
BinaryArray_new(large, offsets, values, validity) ==
  IF validity.present /\ Len(validity.bits) # Len(offsets) - 1
    THEN [kind |-> "Panic", arr |-> NoArray]
    ELSE [kind |-> "Ok",
          arr |-> [dt |-> DT("WKB", large, "None"),
                   offsets |-> offsets,
                   values |-> values,
                   validity |-> validity]]

\* From<&PointArray> for WKBArray<O>: the validity is cloned, and a WKBPoint
\* and an offset are written for the non-null items only
WKBArray_from_points(value, large) ==
  LET items == Finished_iter(value)
      f[k \in 0..Len(items)] ==
        IF k = 0 THEN [offsets |-> <<0>>, values |-> <<>>]
        ELSE IF items[k].type = "None" THEN f[k - 1]
        ELSE [offsets |-> try_push_usize(f[k - 1].offsets, POINT_WKB_SIZE),
              values |-> f[k - 1].values \o write_point_as_wkb(items[k])]
      w == f[Len(items)]
  IN BinaryArray_new(large, w.offsets, w.values, value.validity)

\* a WKB scalar: the bytes of one element of a binary array
WKB(buf) == [type |-> "WKB", v |-> buf]

\* wkb_arr.iter(): the optional WKB scalars in order
WKBArray_iter(a) ==
  [k \in 1..(Len(a.offsets) - 1) |->
     IF is_null(a, k - 1) THEN None
     ELSE WKB(SubSeq(a.values, a.offsets[k] + 1, a.offsets[k + 1]))]

\* Reading WKB.  A read is [st, geom, pos]: pos is the number of bytes
\* consumed so far, a read past the end of the buffer is an error.
ReadErr == [st |-> "Err", geom |-> None, pos |-> 0]

ReadOk(geom, pos) == [st |-> "Ok", geom |-> geom, pos |-> pos]

read_u32(buf, pos) ==
  buf[pos + 1] + 256 * buf[pos + 2] + 65536 * buf[pos + 3]
    + 16777216 * buf[pos + 4]

read_f64(buf, pos) ==
  LET Pow2[n \in 0..20] == IF n = 0 THEN 1 ELSE 2 * Pow2[n - 1]
      exponent == buf[pos + 8] * 16 + buf[pos + 7] \div 16
      fraction == (buf[pos + 7] % 16) * 65536 + buf[pos + 6] * 256 + buf[pos + 5]
  IN IF exponent = 0 THEN 0
     ELSE Pow2[exponent - 1023] + fraction \div Pow2[20 - (exponent - 1023)]

\* n coordinates of 16 bytes
read_coords(buf, pos, n) ==
  IF pos + 16 * n > Len(buf) THEN ReadErr
  ELSE ReadOk([j \in 1..n |-> <<read_f64(buf, pos + 16 * (j - 1)),
                               read_f64(buf, pos + 16 * (j - 1) + 8)>>],
              pos + 16 * n)

\* a length prefix and that many coordinates
read_line(buf, pos) ==
  IF pos + 4 > Len(buf) THEN ReadErr
  ELSE read_coords(buf, pos + 4, read_u32(buf, pos))

RECURSIVE read_geometry(_, _)
\* Byte order, type code and body of one geometry.  Only little-endian
\* buffers are offered.  The members of a polygon are its rings, read by
\* read_line; the members of a multi geometry or a collection are
\* geometries.
read_geometry(buf, pos) ==
  IF pos + 5 > Len(buf) \/ buf[pos + 1] # 1 THEN ReadErr
  ELSE LET code == read_u32(buf, pos + 1)
           type == CASE code = 1 -> "Point"
                     [] code = 2 -> "LineString"
                     [] code = 3 -> "Polygon"
                     [] code = 4 -> "MultiPoint"
                     [] code = 5 -> "MultiLineString"
                     [] code = 6 -> "MultiPolygon"
                     [] code = 7 -> "GeometryCollection"
                     [] OTHER -> "None"
           n == read_u32(buf, pos + 5)
           members[k \in 0..n] ==
             IF k = 0 THEN ReadOk(<<>>, pos + 9)
             ELSE IF members[k - 1].st # "Ok" THEN ReadErr
             ELSE LET r == IF type = "Polygon"
                             THEN read_line(buf, members[k - 1].pos)
                             ELSE read_geometry(buf, members[k - 1].pos)
                  IN IF r.st # "Ok" THEN ReadErr
                     ELSE ReadOk(Append(members[k - 1].geom, r.geom), r.pos)
       IN
    CASE type = "Point" ->
           LET r == read_coords(buf, pos + 5, 1)
           IN IF r.st # "Ok" THEN ReadErr
              ELSE ReadOk(Geom(type, r.geom[1]), r.pos)
      [] type = "LineString" ->
           LET r == read_line(buf, pos + 5)
           IN IF r.st # "Ok" THEN ReadErr ELSE ReadOk(Geom(type, r.geom), r.pos)
      [] type = "None" -> ReadErr
      [] OTHER ->
           IF pos + 9 > Len(buf) \/ members[n].st # "Ok" THEN ReadErr
           ELSE IF type \in {"Polygon", "GeometryCollection"}
             THEN ReadOk(Geom(type, members[n].geom), members[n].pos)
           ELSE ReadOk(Geom(type, [j \in 1..n |-> members[n].geom[j].v]),
                       members[n].pos)

\* geozero::wkb::Wkb(buf).to_geo()
to_geo(buf) == read_geometry(buf, 0)

\* From<&WKB> for geo::Geometry: to_geo().unwrap()
WKB_into_geometry(wkb) ==
  LET r == to_geo(wkb.v)
  IN IF r.st = "Ok" THEN [kind |-> "Ok", arr |-> r.geom]
     ELSE [kind |-> "Panic", arr |-> None]

\* from_ewkb over a binary array: a valid element is read with `?`, a null
\* one is a null of the result; the result lists the elements read
from_ewkb(arr) ==
  LET f[k \in 0..Len(arr)] ==
        IF k = 0 THEN [kind |-> "Ok", arr |-> <<>>]
        ELSE IF f[k - 1].kind # "Ok" THEN f[k - 1]
        ELSE IF arr[k].type = "None"
          THEN [kind |-> "Ok", arr |-> Append(f[k - 1].arr, None)]
        ELSE LET r == to_geo(arr[k].v)
             IN IF r.st # "Ok" THEN [kind |-> "Err", arr |-> <<>>]
                ELSE [kind |-> "Ok", arr |-> Append(f[k - 1].arr, r.geom)]
  IN f[Len(arr)]

\* TryFrom<WKBArray> for PointArray: every element is read as a point, a
\* null element is a null point
PointArray_try_from_wkb(wkb_arr) ==
  LET items == WKBArray_iter(wkb_arr)
      f[k \in 0..Len(items)] ==
        IF k = 0 THEN Ok(Builder_new(DT("Point", FALSE, "Interleaved")))
        ELSE IF f[k - 1].st # "Ok" THEN f[k - 1]
        ELSE IF items[k].type = "None"
          THEN Ok(PointBuilder_push_point(f[k - 1].b, None))
        ELSE LET r == to_geo(items[k].v)
             IN IF r.st # "Ok" \/ r.geom.type # "Point" THEN Err(f[k - 1].b)
                ELSE Ok(PointBuilder_push_point(f[k - 1].b, r.geom))
      r == f[Len(items)]
  IN IF r.st = "Ok" THEN [kind |-> "Ok", arr |-> Array_from(r.b)]
     ELSE [kind |-> "Err", arr |-> NoArray]

RECURSIVE wkb_bytes(_)
\* The bytes of a well-formed WKB point, line string or collection, for
\* the buffers offered to the readers.
wkb_bytes(g) ==
  IF g.type = "Point" THEN write_point_as_wkb(g)
  ELSE LET n == Len(g.v)
           body[k \in 0..n] ==
             IF k = 0 THEN <<>>
             ELSE IF g.type = "LineString"
               THEN body[k - 1] \o write_f64(g.v[k][1]) \o write_f64(g.v[k][2])
             ELSE body[k - 1] \o wkb_bytes(g.v[k])
       IN <<1>> \o write_u32(IF g.type = "LineString" THEN 2 ELSE 7)
            \o write_u32(n) \o body[n]

\* WKB::to_wkb_object of a well-formed buffer
to_wkb_object(wkb) == to_geo(wkb.v).geom

\* MixedGeometryBuilder::from_wkb: every WKB is turned into its object and
\* the objects go to from_nullable_geometries; the Result is always Ok
from_wkb(wkb_objects, dt) ==
  from_nullable_geometries(
    [k \in 1..Len(wkb_objects) |->
       IF wkb_objects[k].type = "None" THEN None
       ELSE to_wkb_object(wkb_objects[k])],
    dt)

\* TryFrom<WKBArray> for MixedGeometryBuilder: assert_eq!(null count, 0),
\* then from_wkb over value.iter()
MixedGeometryBuilder_try_from_wkb(wkb_objects, dt) ==
  IF \E k \in 1..Len(wkb_objects) : wkb_objects[k].type = "None"
    THEN [kind |-> "Panic", b |-> MixedGeometryBuilder_new(dt),
          capacity |-> MixedCapacity_new_empty]
    ELSE from_wkb(wkb_objects, dt)

\* no metadata, no iterator and no query in the behaviours without them
NoMeta == [version |-> "", primary_column |-> "", columns |-> <<>>]

NoIter ==
  [index |-> 0, end |-> 0, yielded |-> <<>>,
   last |-> [op |-> "None", ret |-> <<>>]]

NoTable ==
  [st |-> "None", table_builder |-> [present |-> FALSE, events |-> <<>>],
   row_idx |-> 0, stream |-> <<>>, rows |-> <<>>, ret |-> "None"]

(* -------------------------- GeoParquetMetadata ------------------------- *)
\* A GeoParquetMetadata is [version, primary_column, columns], columns a
\* function from the column names to the column metadata; an Option is
\* [present, v].  A FileMetaData is the optional value of its "geo" key.
\* from_parquet_meta: the metadata of the "geo" key, or an error
from_parquet_meta(metadata) ==
  IF metadata.present THEN [kind |-> "Ok", meta |-> metadata.v]
  ELSE [kind |-> "Err", meta |-> NoMeta]

\* try_compatible_with: the versions and the primary columns are the same,
\* and every column of self is a column of other with the same encoding and
\* geometry types, a bbox of the same length where both have one, and the
\* same optional crs
try_compatible_with(self, other) ==
  IF self.version # other.version THEN "Err"
  ELSE IF self.primary_column # other.primary_column THEN "Err"
  ELSE IF \E key \in DOMAIN self.columns :
            \/ key \notin DOMAIN other.columns
            \/ LET left == self.columns[key]
                   right == other.columns[key]
               IN \/ left.encoding # right.encoding
                  \/ left.geometry_types # right.geometry_types
                  \/ /\ left.bbox.present /\ right.bbox.present
                     /\ Len(left.bbox.v) # Len(right.bbox.v)
                  \/ left.crs.present # right.crs.present
                  \/ left.crs.present /\ left.crs.v # right.crs.v
    THEN "Err"
  ELSE "Ok"

\* is_compatible_with: try_compatible_with(other).is_ok()
is_compatible_with(self, other) == try_compatible_with(self, other) = "Ok"

\* The (Some(bbox), Some(other_bbox)) arm of try_update: a bbox of length
\* 4 or 6 takes the smaller lower bounds and the larger upper bounds, a
\* bbox of another length is left alone.  The variant updates a bbox of
\* length 6 with the indices of length 4.
expand_bbox_flat(bbox, other_bbox) ==
  IF Len(bbox) \in {4, 6}
    THEN [k \in 1..Len(bbox) |->
            IF k <= 2
              THEN (IF other_bbox[k] < bbox[k] THEN other_bbox[k] ELSE bbox[k])
            ELSE IF k <= 4
              THEN (IF other_bbox[k] > bbox[k] THEN other_bbox[k] ELSE bbox[k])
            ELSE bbox[k]]
    ELSE bbox

expand_bbox(bbox, other_bbox) ==
  IF Len(bbox) \in {4, 6}
    THEN [k \in 1..Len(bbox) |->
            IF 2 * k <= Len(bbox)
              THEN (IF other_bbox[k] < bbox[k] THEN other_bbox[k] ELSE bbox[k])
              ELSE (IF other_bbox[k] > bbox[k] THEN other_bbox[k] ELSE bbox[k])]
    ELSE bbox

\* The loop of try_update over the columns of self; the assert_eq! of the
\* two lengths panics
update_columns(self, other) ==
  IF \E c \in DOMAIN self.columns :
       /\ self.columns[c].bbox.present /\ other.columns[c].bbox.present
       /\ Len(self.columns[c].bbox.v) # Len(other.columns[c].bbox.v)
    THEN [kind |-> "Panic", meta |-> self]
    ELSE [kind |-> "Ok",
          meta |-> [self EXCEPT !.columns =
            [c \in DOMAIN self.columns |->
               LET column_meta == self.columns[c]
                   other_bbox == other.columns[c].bbox
               IN IF ~other_bbox.present THEN column_meta
                  ELSE IF ~column_meta.bbox.present
                    THEN [column_meta EXCEPT !.bbox = other_bbox]
                  ELSE [column_meta EXCEPT
                          !.bbox.v = expand_bbox(@, other_bbox.v)]]]]

\* try_update: the other file's metadata is read and checked before the
\* first bbox is touched.  The variant updates the columns the two have in
\* common and then reports the error.
try_update_then_check(self, other) ==
  LET o == from_parquet_meta(other) IN
  IF o.kind # "Ok" THEN [kind |-> "Err", meta |-> self]
  ELSE IF try_compatible_with(self, o.meta) # "Ok"
    THEN [kind |-> "Err",
          meta |-> [self EXCEPT !.columns =
            [c \in DOMAIN self.columns |->
               IF c \in DOMAIN o.meta.columns /\ o.meta.columns[c].bbox.present
                 THEN [self.columns[c] EXCEPT !.bbox = o.meta.columns[c].bbox]
                 ELSE self.columns[c]]]]
  ELSE update_columns(self, o.meta)

try_update(self, other) ==
  LET o == from_parquet_meta(other) IN
  IF o.kind # "Ok" THEN [kind |-> "Err", meta |-> self]
  ELSE IF try_compatible_with(self, o.meta) # "Ok"
    THEN [kind |-> "Err", meta |-> self]
  ELSE update_columns(self, o.meta)

(* ------------------------------ geozero -------------------------------- *)
\* The calls a GeomProcessor receives are tuples: the name of the method
\* and its arguments.  The xy calls of the coordinates start .. end-1, each
\* with its index from the start of the run:
process_coords(coords, start_coord_idx, end_coord_idx) ==
  [k \in 1..(end_coord_idx - start_coord_idx) |->
     <<"xy", get_x(coords, start_coord_idx + k - 1),
       get_y(coords, start_coord_idx + k - 1), k - 1>>]

\* processor.geometrycollection_end(num_geometries - 1): the subtraction
\* is done in usize.  For num_geometries = 0 it panics in a build with
\* overflow checks and wraps to usize::MAX in a build without.
collection_end(events, num_geometries, overflow_checks) ==
  IF num_geometries > 0
    THEN [kind |-> "Ok",
          events |-> Append(events, <<"geometrycollection_end", num_geometries - 1>>)]
  ELSE IF overflow_checks THEN [kind |-> "Panic", events |-> events]
  ELSE [kind |-> "Ok",
        events |-> Append(events, <<"geometrycollection_end", "usize::MAX">>)]

\* LineStringArray::process_geom.  The variant numbers the coordinates
\* from the start of the buffer.
LineStringArray_process_geom_absolute(a, overflow_checks) ==
  LET num_geometries == Array_len(a)
      line(geom_idx) ==
        LET se == start_end(a.geom_offsets, geom_idx) IN
        <<<<"linestring_begin", TRUE, se[2] - se[1], geom_idx>>>>
          \o [k \in 1..(se[2] - se[1]) |->
                <<"xy", get_x(a.coords, se[1] + k - 1),
                  get_y(a.coords, se[1] + k - 1), se[1] + k - 1>>]
          \o <<<<"linestring_end", TRUE, geom_idx>>>>
      lines[k \in 0..num_geometries] ==
        IF k = 0 THEN <<<<"geometrycollection_begin", num_geometries, 0>>>>
        ELSE lines[k - 1] \o line(k - 1)
  IN collection_end(lines[num_geometries], num_geometries, overflow_checks)

LineStringArray_process_geom(a, overflow_checks) ==
  LET num_geometries == Array_len(a)
      line(geom_idx) ==
        LET se == start_end(a.geom_offsets, geom_idx) IN
        <<<<"linestring_begin", TRUE, se[2] - se[1], geom_idx>>>>
          \o process_coords(a.coords, se[1], se[2])
          \o <<<<"linestring_end", TRUE, geom_idx>>>>
      lines[k \in 0..num_geometries] ==
        IF k = 0 THEN <<<<"geometrycollection_begin", num_geometries, 0>>>>
        ELSE lines[k - 1] \o line(k - 1)
  IN collection_end(lines[num_geometries], num_geometries, overflow_checks)

\* MultiPolygonArray::process_geom
MultiPolygonArray_process_geom(a, overflow_checks) ==
  LET num_geometries == Array_len(a)
      ring(ring_idx, start_ring_idx) ==
        LET se == start_end(a.ring_offsets, ring_idx) IN
        <<<<"linestring_begin", FALSE, se[2] - se[1], ring_idx - start_ring_idx>>>>
          \o process_coords(a.coords, se[1], se[2])
          \o <<<<"linestring_end", FALSE, ring_idx - start_ring_idx>>>>
      polygon(polygon_idx, start_polygon_idx) ==
        LET se == start_end(a.polygon_offsets, polygon_idx)
            rings[k \in 0..(se[2] - se[1])] ==
              IF k = 0
                THEN <<<<"polygon_begin", FALSE, se[2] - se[1],
                         polygon_idx - start_polygon_idx>>>>
                ELSE rings[k - 1] \o ring(se[1] + k - 1, se[1])
        IN Append(rings[se[2] - se[1]],
                  <<"polygon_end", FALSE, polygon_idx - start_polygon_idx>>)
      geometry(geom_idx) ==
        LET se == start_end(a.geom_offsets, geom_idx)
            polygons[k \in 0..(se[2] - se[1])] ==
              IF k = 0 THEN <<<<"multipolygon_begin", se[2] - se[1], geom_idx>>>>
              ELSE polygons[k - 1] \o polygon(se[1] + k - 1, se[1])
        IN Append(polygons[se[2] - se[1]], <<"multipolygon_end", geom_idx>>)
      geometries[k \in 0..num_geometries] ==
        IF k = 0 THEN <<<<"geometrycollection_begin", num_geometries, 0>>>>
        ELSE geometries[k - 1] \o geometry(k - 1)
  IN collection_end(geometries[num_geometries], num_geometries, overflow_checks)

RECURSIVE CoordBuffer_to_boxed(_, _)
\* CoordBuffer::to_boxed: both arms call self.to_boxed(), the method
\* itself, with the same receiver; the call that finds frames frames on the
\* stack and no room for another overflows the stack, which aborts the
\* process
CoordBuffer_to_boxed(self, frames) ==
  IF frames = MaxFrames THEN [kind |-> "Abort", arr |-> NoArray]
  ELSE CASE self.ct = "Interleaved" -> CoordBuffer_to_boxed(self, frames + 1)
         [] self.ct = "Separated" -> CoordBuffer_to_boxed(self, frames + 1)

(* --------------------------- state helpers ----------------------------- *)
NoResult == [kind |-> "None", arr |-> NoArray, to |-> NoArray.dt]

NoChunked == [kind |-> "None", chunks |-> <<>>, to |-> NoArray.dt]

\* no push has failed yet
NoCall == [st |-> "Ok", before |-> NoArray]

NoOut == [op |-> "None", kind |-> "None", arr |-> NoArray, args |-> <<>>]

NewBuilder(dt) ==
  CASE dt.shape = "Mixed" -> MixedGeometryBuilder_new(dt)
    [] dt.shape = "GeometryCollection" -> GeometryCollectionBuilder_new(dt)
    [] OTHER -> Builder_new(dt)

\* the array the builder finishes into
Source ==
  CASE builder.dt.shape = "Mixed" -> MixedGeometryBuilder_finish(builder)
    [] builder.dt.shape = "GeometryCollection" ->
         GeometryCollectionBuilder_finish(builder)
    [] OTHER -> builder

MixedNumCoords(mb) ==
  CoordBuffer_len(mb.points.coords) + CoordBuffer_len(mb.line_strings.coords)
    + CoordBuffer_len(mb.polygons.coords) + CoordBuffer_len(mb.multi_points.coords)
    + CoordBuffer_len(mb.multi_line_strings.coords)
    + CoordBuffer_len(mb.multi_polygons.coords)

\* coordinates stored so far: the next pushed coordinate is Coord(NumCoords+1)
NumCoords ==
  CASE builder.dt.shape = "Mixed" -> MixedNumCoords(builder)
    [] builder.dt.shape = "GeometryCollection" -> MixedNumCoords(builder.geoms)
    [] OTHER -> CoordBuffer_len(builder.coords)

(* --------------------------- pushed values ----------------------------- *)
MkLine(k0, n) == [j \in 1..n |-> Coord(k0 + j)]

MkRings(k0, r, n) == [i \in 1..r |-> MkLine(k0 + (i - 1) * n, n)]

MkPolys(k0, p, r, n) == [i \in 1..p |-> MkRings(k0 + (i - 1) * r * n, r, n)]

\* The values offered to a union builder are fewer: one size per single
\* shape, one part or MaxParts parts per multi shape.
Union == builder.dt.shape \in {"Mixed", "GeometryCollection"}

PointValues == {None, Geom("Point", Coord(NumCoords + 1))}

LineStringValues ==
  {None} \cup {Geom("LineString", MkLine(NumCoords, n)) :
                 n \in IF Union THEN {MaxParts} ELSE 0..MaxParts}

MultiPointValues ==
  {None} \cup {Geom("MultiPoint", MkLine(NumCoords, n)) :
                 n \in IF Union THEN {1, MaxParts} ELSE 0..MaxParts}

\* a polygon always has its exterior ring
PolygonValues ==
  {None} \cup {Geom("Polygon", MkRings(NumCoords, r, n)) :
                 r \in IF Union THEN {1} ELSE 1..MaxParts,
                 n \in IF Union THEN {1} ELSE 1..MaxParts}

MultiLineStringValues ==
  {None} \cup {Geom("MultiLineString", MkRings(NumCoords, m, n)) :
                 m \in IF Union THEN {1, MaxParts} ELSE 0..MaxParts,
                 n \in IF Union THEN {1} ELSE 1..MaxParts}

MultiPolygonValues ==
  {None} \cup {Geom("MultiPolygon", MkPolys(NumCoords, p, r, 1)) :
                 p \in IF Union THEN {1, MaxParts} ELSE 0..MaxParts,
                 r \in IF Union THEN {1} ELSE 1..MaxParts}

(* ------------------------------ actions -------------------------------- *)
Building ==
  /\ result.kind = "None"
  /\ chunked_result.kind = "None"
  /\ out.op = "None"
  /\ geoms = <<>>
  /\ call.st # "Panic"
  /\ pushes < MaxLen

\* a push call returned r: the builder is left as the call left it
Pushed(r, child, value) ==
  /\ builder' = r.b
  /\ call' = [st |-> r.st, before |-> builder]
  /\ pushes' = pushes + 1
  /\ log' = IF r.st = "Ok" THEN Append(log, [child |-> child, value |-> value])
            ELSE log
  /\ UNCHANGED <<result, back, chunks, chunked_result, offset_max, meta, iter, table, geoms, out>>

PushPoint ==
  /\ Building
  /\ \E value \in PointValues :
       CASE builder.dt.shape = "Point" ->
              Pushed(Ok(PointBuilder_push_point(builder, value)), "points", value)
         [] builder.dt.shape = "Mixed" -> Pushed(Ok(push_point(builder, value)), "points", value)
         [] builder.dt.shape = "GeometryCollection" ->
              Pushed(GC_push_point(builder, value), "points", value)
         [] OTHER -> FALSE

PushLineString ==
  /\ Building
  /\ \E value \in LineStringValues :
       CASE builder.dt.shape = "LineString" ->
              Pushed(LineStringBuilder_push_line_string(builder, value), "line_strings", value)
         [] builder.dt.shape = "Mixed" -> Pushed(push_line_string(builder, value), "line_strings", value)
         [] OTHER -> FALSE

PushPolygon ==
  /\ Building
  /\ \E value \in PolygonValues :
       CASE builder.dt.shape = "Polygon" ->
              Pushed(PolygonBuilder_push_polygon(builder, value), "polygons", value)
         [] builder.dt.shape = "Mixed" -> Pushed(push_polygon(builder, value), "polygons", value)
         [] OTHER -> FALSE

PushMultiPoint ==
  /\ Building
  /\ \E value \in MultiPointValues :
       CASE builder.dt.shape = "MultiPoint" ->
              Pushed(MultiPointBuilder_push_multi_point(builder, value), "multi_points", value)
         [] builder.dt.shape = "Mixed" -> Pushed(push_multi_point(builder, value), "multi_points", value)
         [] OTHER -> FALSE

PushMultiLineString ==
  /\ Building
  /\ \E value \in MultiLineStringValues :
       CASE builder.dt.shape = "MultiLineString" ->
              Pushed(MultiLineStringBuilder_push_multi_line_string(builder, value), "multi_line_strings", value)
         [] builder.dt.shape = "Mixed" ->
              Pushed(push_multi_line_string(builder, value), "multi_line_strings", value)
         [] OTHER -> FALSE

PushMultiPolygon ==
  /\ Building
  /\ \E value \in MultiPolygonValues :
       CASE builder.dt.shape = "MultiPolygon" ->
              Pushed(MultiPolygonBuilder_push_multi_polygon(builder, value), "multi_polygons", value)
         [] builder.dt.shape = "Mixed" -> Pushed(push_multi_polygon(builder, value), "multi_polygons", value)
         [] OTHER -> FALSE

PushPointAsMultiPoint ==
  /\ Building
  /\ builder.dt.shape = "Mixed"
  /\ \E value \in PointValues : Pushed(push_point_as_multi_point(builder, value), "multi_points", value)

PushLineStringAsMultiLineString ==
  /\ Building
  /\ builder.dt.shape = "Mixed"
  /\ \E value \in LineStringValues :
       Pushed(push_line_string_as_multi_line_string(builder, value), "multi_line_strings", value)

PushPolygonAsMultiPolygon ==
  /\ Building
  /\ builder.dt.shape = "Mixed"
  /\ \E value \in PolygonValues :
       Pushed(push_polygon_as_multi_polygon(builder, value), "multi_polygons", value)

\* array.cast(&to_type)
Cast ==
  /\ result.kind = "None"
  /\ out.op = "None"
  /\ call.st = "Ok"
  /\ chunked_result.kind = "None"
  /\ chunks = <<>>
  /\ \E to_type \in GeoDataType :
       LET r == cast(Source, to_type) IN
       result' = [kind |-> r.kind, arr |-> r.arr, to |-> to_type]
  /\ UNCHANGED <<builder, pushes, log, call, back, chunks, chunked_result>>
  /\ UNCHANGED <<offset_max, meta, iter, table, geoms, out>>

\* the array a cast returned is cast back to the data type of the source
CastBack ==
  /\ result.kind = "Ok"
  /\ back.kind = "None"
  /\ LET r == cast(result.arr, builder.dt) IN
     back' = [kind |-> r.kind, arr |-> r.arr, to |-> builder.dt]
  /\ UNCHANGED <<builder, pushes, log, call, result, chunks, chunked_result>>
  /\ UNCHANGED <<offset_max, meta, iter, table, geoms, out>>

\* the finished array becomes the next chunk; a new builder is started
AddChunk ==
  /\ result.kind = "None"
  /\ out.op = "None"
  /\ call.st = "Ok"
  /\ chunked_result.kind = "None"
  /\ Len(chunks) < MaxChunks
  /\ chunks' = Append(chunks, Source)
  /\ builder' = NewBuilder(builder.dt)
  /\ pushes' = 0
  /\ log' = <<>>
  /\ call' = NoCall
  /\ UNCHANGED <<result, back, chunked_result, offset_max, meta, iter, table, geoms, out>>

\* chunked.cast(&to_type)
CastChunked ==
  /\ result.kind = "None"
  /\ out.op = "None"
  /\ call.st = "Ok"
  /\ chunked_result.kind = "None"
  /\ pushes = 0
  /\ \E to_type \in GeoDataType :
       LET r == chunked_cast(chunks, to_type) IN
       chunked_result' = [kind |-> r.kind, chunks |-> r.chunks, to |-> to_type]
  /\ UNCHANGED <<builder, pushes, log, call, result, back, chunks>>
  /\ UNCHANGED <<offset_max, meta, iter, table, geoms, out>>

\* coordinates of the elements of the input vector so far
RECURSIVE NumLineCoords(_)
NumLineCoords(lines) ==
  IF lines = <<>> THEN 0 ELSE Len(Head(lines)) + NumLineCoords(Tail(lines))

RECURSIVE InputNumCoords(_)
InputNumCoords(input) ==
  IF input = <<>> THEN 0
  ELSE (IF Head(input).type = "None" THEN 0 ELSE NumLineCoords(Head(input).v))
         + InputNumCoords(Tail(input))

\* the optional multi line strings offered as the next element of the input
MultiLineStringInputs ==
  {None} \cup {Geom("MultiLineString", MkRings(InputNumCoords(geoms), m, n)) :
                 m \in 0..MaxParts, n \in 0..MaxParts}

\* one more element of the vector or array handed to a constructor or reader
AddGeom(inputs) ==
  /\ out.op = "None"
  /\ pushes = 0
  /\ Len(geoms) < MaxLen
  /\ \E g \in inputs : geoms' = Append(geoms, g)
  /\ UNCHANGED <<builder, pushes, log, call, result, back, chunks, chunked_result>>
  /\ UNCHANGED <<offset_max, meta, iter, table, out>>

\* let arr: MultiLineStringArray<O> = geoms.into()
FromVec ==
  /\ out.op = "None"
  /\ pushes = 0
  /\ \E large \in BOOLEAN :
       LET r == MultiLineStringArray_from_vec(geoms, large) IN
       out' = [op |-> "from_vec", kind |-> r.kind, arr |-> r.arr,
               args |-> <<large>>]
  /\ UNCHANGED <<builder, pushes, log, call, result, back, chunks, chunked_result>>
  /\ UNCHANGED <<offset_max, meta, iter, table, geoms>>

\* the result of a constructor of the Mixed builder, finished
Constructed(op, r) ==
  [op |-> op,
   kind |-> r.kind,
   arr |-> IF r.kind = "Ok" THEN MixedGeometryBuilder_finish(r.b) ELSE NoArray,
   args |-> <<total_num_geoms(r.capacity)>>]

\* the optional geometries offered as the next element of the input
GeometryInputs ==
  LET k0 == Len(geoms) * MaxParts IN
  {None,
   Geom("Point", Coord(k0 + 1)),
   Geom("LineString", MkLine(k0, MaxParts)),
   Geom("Polygon", MkRings(k0, 1, MaxParts)),
   Geom("MultiPoint", MkLine(k0, MaxParts)),
   Geom("MultiLineString", MkRings(k0, 1, MaxParts)),
   Geom("MultiPolygon", MkPolys(k0, 1, 1, MaxParts)),
   Geom("GeometryCollection", <<Geom("Point", Coord(k0 + 1))>>)}

\* MixedGeometryBuilder::from_nullable_geometries(&geoms, coord_type).finish()
FromNullableGeometries ==
  /\ out.op = "None"
  /\ pushes = 0
  /\ \A i \in 1..Len(geoms) : geoms[i].type # "WKB"
  /\ out' = Constructed("from_nullable_geometries",
                        from_nullable_geometries(geoms, builder.dt))
  /\ UNCHANGED <<builder, pushes, log, call, result, back, chunks, chunked_result>>
  /\ UNCHANGED <<offset_max, meta, iter, table, geoms>>

\* the optional well-formed WKB scalars offered as the next element: a
\* point, a line string, and collections of none, one and two geometries
\* and of one collection
WkbInputs ==
  LET point == Geom("Point", Coord(Len(geoms) + 1))
      collection(members) == Geom("GeometryCollection", members)
  IN {None} \cup
     {WKB(wkb_bytes(g)) :
        g \in {point,
               Geom("LineString", MkLine(Len(geoms), MaxParts)),
               collection(<<>>),
               collection(<<point>>),
               collection(<<point, point>>),
               collection(<<collection(<<point>>)>>)}}

\* MixedGeometryBuilder::from_wkb(&wkb_objects, coord_type)
FromWkb ==
  /\ out.op = "None"
  /\ pushes = 0
  /\ \A i \in 1..Len(geoms) : geoms[i].type \in {"WKB", "None"}
  /\ out' = Constructed("from_wkb", from_wkb(geoms, builder.dt))
  /\ UNCHANGED <<builder, pushes, log, call, result, back, chunks, chunked_result>>
  /\ UNCHANGED <<offset_max, meta, iter, table, geoms>>

\* let builder: MixedGeometryBuilder<O> = wkb_array.try_into()
TryFromWkbArray ==
  /\ out.op = "None"
  /\ pushes = 0
  /\ \A i \in 1..Len(geoms) : geoms[i].type \in {"WKB", "None"}
  /\ out' = Constructed("try_from_wkb_array",
                        MixedGeometryBuilder_try_from_wkb(geoms, builder.dt))
  /\ UNCHANGED <<builder, pushes, log, call, result, back, chunks, chunked_result>>
  /\ UNCHANGED <<offset_max, meta, iter, table, geoms>>

\* let wkb_arr: WKBArray<O> = (&point_arr).into()
ToWkb ==
  /\ out.op = "None"
  /\ geoms = <<>>
  /\ call.st = "Ok"
  /\ builder.dt.shape = "Point"
  /\ \E large \in BOOLEAN :
       LET r == WKBArray_from_points(Array_from(builder), large) IN
       out' = [op |-> "to_wkb", kind |-> r.kind, arr |-> r.arr,
               args |-> <<large>>]
  /\ UNCHANGED <<builder, pushes, log, call, result, back, chunks, chunked_result>>
  /\ UNCHANGED <<offset_max, meta, iter, table, geoms>>

\* let new_point_arr: PointArray = wkb_arr.try_into()
ParseWkb ==
  /\ out.op = "to_wkb"
  /\ out.kind = "Ok"
  /\ back.kind = "None"
  /\ LET r == PointArray_try_from_wkb(out.arr) IN
     back' = [kind |-> r.kind, arr |-> r.arr, to |-> builder.dt]
  /\ UNCHANGED <<builder, pushes, log, call, result, chunks, chunked_result>>
  /\ UNCHANGED <<offset_max, meta, iter, table, geoms, out>>

\* The optional WKB scalars offered to the readers: a point and a line string, whole,
\* cut after the type code or inside the coordinates (the line string's
\* length prefix then counts a coordinate the buffer does not hold), and
\* without the last byte.
Buffers ==
  LET whole == {wkb_bytes(Geom("Point", Coord(Len(geoms) + 1))),
                wkb_bytes(Geom("LineString", MkLine(Len(geoms), MaxParts)))}
  IN {None} \cup {WKB(buf) : buf \in whole}
       \cup {WKB(SubSeq(buf, 1, Len(buf) - cut)) :
               buf \in whole, cut \in {1, 16}}

\* let geom: geo::Geometry = (&wkb).into(), wkb being the valid element i
ToGeo ==
  /\ out.op = "None"
  /\ pushes = 0
  /\ \E i \in 1..Len(geoms) :
       /\ geoms[i].type = "WKB"
       /\ LET r == WKB_into_geometry(geoms[i]) IN
          out' = [op |-> "to_geo", kind |-> r.kind, arr |-> r.arr,
                  args |-> <<i>>]
  /\ UNCHANGED <<builder, pushes, log, call, result, back, chunks, chunked_result>>
  /\ UNCHANGED <<offset_max, meta, iter, table, geoms>>

\* MixedGeometryArray::from_ewkb(&arr, coord_type)
FromEwkb ==
  /\ out.op = "None"
  /\ pushes = 0
  /\ LET r == from_ewkb(geoms) IN
     out' = [op |-> "from_ewkb", kind |-> r.kind, arr |-> r.arr,
             args |-> <<>>]
  /\ UNCHANGED <<builder, pushes, log, call, result, back, chunks, chunked_result>>
  /\ UNCHANGED <<offset_max, meta, iter, table, geoms>>

\* let sliced = arr.slice(offset, length), arr being the finished builder
Slice ==
  /\ out.op = "None"
  /\ geoms = <<>>
  /\ result.kind = "None"
  /\ call.st = "Ok"
  /\ builder.dt.shape = "LineString"
  /\ \E offset \in 0..(MaxLen + 1), length \in 0..(MaxLen + 1) :
       LET r == LineStringArray_slice(Array_from(builder), offset, length) IN
       out' = [op |-> "slice", kind |-> r.kind, arr |-> r.arr,
               args |-> <<offset, length>>]
  /\ UNCHANGED <<builder, pushes, log, call, result, back, chunks, chunked_result>>
  /\ UNCHANGED <<offset_max, meta, iter, table, geoms>>

\* The column metadata offered: an encoding, geometry types, an optional
\* crs, optional edges and an optional bbox of length 4 or 6 (or 2, which
\* the file format does not allow but the type does).
ColumnInputs(encodings, types, crss, edgess, bboxes) ==
  [encoding : encodings,
   geometry_types : types,
   crs : crss,
   orientation : {[present |-> FALSE, v |-> ""]},
   edges : edgess,
   bbox : bboxes,
   epoch : {[present |-> FALSE, v |-> 0]},
   covering : {[present |-> FALSE, v |-> <<>>]}]

Crss == {[present |-> FALSE, v |-> ""]}
          \cup {[present |-> TRUE, v |-> c] : c \in {"EPSG:4326", "EPSG:3857"}}

Edgess == {[present |-> FALSE, v |-> ""]}
            \cup {[present |-> TRUE, v |-> e] : e \in {"planar", "spherical"}}

Bboxes ==
  {[present |-> FALSE, v |-> <<>>]}
    \cup {[present |-> TRUE, v |-> b] :
            b \in {<<0, 0, 2, 2>>, <<1, -1, 3, 1>>, <<0, 0, 0, 1, 1, 1>>,
                   <<1, -1, -2, 3, 0, 5>>, <<0, 1>>, <<2, 0>>}}

\* the metadata of the other files: the primary column's metadata in
\* every combination of crs, edges and bbox, with at most one of version,
\* primary column, encoding and geometry types changed, and with or
\* without a second geometry column
MetaInputs ==
  LET base == ColumnInputs({"WKB"}, {<<"Point">>}, Crss, Edgess, Bboxes)
      second == ColumnInputs({"WKB"}, {<<>>}, {[present |-> FALSE, v |-> ""]},
                             {[present |-> FALSE, v |-> ""]},
                             {b \in Bboxes : b.v \in {<<>>, <<1, -1, 3, 1>>}})
      columns == {[c \in {"geometry"} |-> g] : g \in base}
                   \cup {[c \in {"geometry", "geom2"} |->
                            IF c = "geometry" THEN g ELSE h] :
                          g \in base, h \in second}
      plain == [version : {"1.1.0"}, primary_column : {"geometry"},
                columns : columns]
  IN plain
       \cup {[m EXCEPT !.version = "1.0.0"] : m \in plain}
       \cup {[m EXCEPT !.primary_column = "geom2"] : m \in plain}
       \cup {[m EXCEPT !.columns["geometry"].encoding = "point"] : m \in plain}
       \cup {[m EXCEPT !.columns["geometry"].geometry_types = <<"Point", "Polygon">>] :
               m \in plain}

\* the FileMetaData of the other file: without a "geo" key, or with one
FileInputs ==
  {[present |-> FALSE, v |-> NoMeta]}
    \cup {[present |-> TRUE, v |-> m] : m \in MetaInputs}

\* self.try_update(&other)
TryUpdate ==
  /\ out.op = "None"
  /\ \E other \in FileInputs :
       LET r == try_update(meta, other) IN
       /\ meta' = r.meta
       /\ out' = [op |-> "try_update", kind |-> r.kind, arr |-> other,
                  args |-> <<meta>>]
  /\ UNCHANGED <<builder, pushes, log, call, result, back, chunks, chunked_result>>
  /\ UNCHANGED <<offset_max, iter, table, geoms>>

\* self.try_compatible_with(&other)
TryCompatibleWith ==
  /\ out.op = "None"
  /\ \E other \in FileInputs :
       /\ other.present
       /\ out' = [op |-> "try_compatible_with",
                  kind |-> try_compatible_with(meta, other.v),
                  arr |-> other, args |-> <<meta>>]
  /\ UNCHANGED <<builder, pushes, log, call, result, back, chunks, chunked_result>>
  /\ UNCHANGED <<offset_max, meta, iter, table, geoms>>

\* self.is_compatible_with(&other)
IsCompatibleWith ==
  /\ out.op = "None"
  /\ \E other \in FileInputs :
       /\ other.present
       /\ out' = [op |-> "is_compatible_with",
                  kind |-> IF is_compatible_with(meta, other.v) THEN "true"
                           ELSE "false",
                  arr |-> other, args |-> <<meta>>]
  /\ UNCHANGED <<builder, pushes, log, call, result, back, chunks, chunked_result>>
  /\ UNCHANGED <<offset_max, meta, iter, table, geoms>>

\* arr.process_geom(&mut processor), arr being the finished builder, in a
\* build with or without overflow checks
ProcessGeom ==
  /\ out.op = "None"
  /\ geoms = <<>>
  /\ call.st = "Ok"
  /\ builder.dt.shape \in {"LineString", "MultiPolygon"}
  /\ \E overflow_checks \in BOOLEAN :
       LET r == IF builder.dt.shape = "LineString"
                  THEN LineStringArray_process_geom(builder, overflow_checks)
                  ELSE MultiPolygonArray_process_geom(builder, overflow_checks)
       IN out' = [op |-> "process_geom", kind |-> r.kind, arr |-> r.events,
                  args |-> <<overflow_checks>>]
  /\ UNCHANGED <<builder, pushes, log, call, result, back, chunks, chunked_result>>
  /\ UNCHANGED <<offset_max, meta, iter, table, geoms>>

\* arr.coords.to_boxed(), arr being the finished builder
ToBoxed ==
  /\ out.op = "None"
  /\ geoms = <<>>
  /\ call.st = "Ok"
  /\ LET r == CoordBuffer_to_boxed(builder.coords, 0) IN
     out' = [op |-> "to_boxed", kind |-> r.kind, arr |-> r.arr, args |-> <<>>]
  /\ UNCHANGED <<builder, pushes, log, call, result, back, chunks, chunked_result>>
  /\ UNCHANGED <<offset_max, meta, iter, table, geoms>>

(* --------------------- MultiPointArrayValuesIter ----------------------- *)
\* The iterator is [index, end] over a borrowed array.  A call returns
\* [self, ret]: the iterator after the call and the returned Option, None
\* or the scalar.  at is the slot that was read, for the record of the
\* calls.
MultiPointArrayValuesIter_new(array) == [index |-> 0, end |-> Array_len(array)]

\* Iterator::next
ValuesIter_next(self, array) ==
  IF self.index = self.end THEN [self |-> self, ret |-> None, at |-> self.index]
  ELSE LET old == self.index IN
       [self |-> [self EXCEPT !.index = @ + 1],
        ret |-> Array_value(array, old), at |-> old]

\* Iterator::size_hint: (lower, Some(upper))
ValuesIter_size_hint(self) ==
  <<self.end - self.index, [present |-> TRUE, v |-> self.end - self.index]>>

\* next_back that stops at the front of the array instead of at index
ValuesIter_next_back_to_front(self, array) ==
  IF self.end = 0 THEN [self |-> self, ret |-> None, at |-> self.end]
  ELSE [self |-> [self EXCEPT !.end = @ - 1],
        ret |-> Array_value(array, self.end - 1), at |-> self.end - 1]

\* DoubleEndedIterator::next_back
ValuesIter_next_back(self, array) ==
  IF self.index = self.end THEN [self |-> self, ret |-> None, at |-> self.end]
  ELSE [self |-> [self EXCEPT !.end = @ - 1],
        ret |-> Array_value(array, self.end - 1), at |-> self.end - 1]

\* the iterator after the call op returned r: a returned scalar is added to
\* the record of the calls
Called(op, r) ==
  iter' = [index |-> r.self.index, end |-> r.self.end,
           yielded |-> IF r.ret = None THEN iter.yielded
                       ELSE Append(iter.yielded,
                                   [op |-> op, at |-> r.at, item |-> r.ret]),
           last |-> [op |-> op, ret |-> r.ret]]

\* arr.values_iter(), arr being the finished builder
ValuesIter ==
  /\ out.op = "None"
  /\ geoms = <<>>
  /\ call.st = "Ok"
  /\ builder.dt.shape = "MultiPoint"
  /\ out' = [op |-> "values_iter", kind |-> "Ok", arr |-> NoArray, args |-> <<>>]
  /\ LET it == MultiPointArrayValuesIter_new(builder) IN
     iter' = [index |-> it.index, end |-> it.end, yielded |-> <<>>,
              last |-> [op |-> "new", ret |-> <<>>]]
  /\ UNCHANGED <<builder, pushes, log, call, result, back, chunks, chunked_result>>
  /\ UNCHANGED <<offset_max, meta, table, geoms>>

IterNext ==
  /\ out.op = "values_iter"
  /\ Called("next", ValuesIter_next([index |-> iter.index, end |-> iter.end], builder))
  /\ UNCHANGED <<builder, pushes, log, call, result, back, chunks, chunked_result>>
  /\ UNCHANGED <<offset_max, meta, table, geoms, out>>

IterNextBack ==
  /\ out.op = "values_iter"
  /\ Called("next_back",
            ValuesIter_next_back([index |-> iter.index, end |-> iter.end], builder))
  /\ UNCHANGED <<builder, pushes, log, call, result, back, chunks, chunked_result>>
  /\ UNCHANGED <<offset_max, meta, table, geoms, out>>

IterSizeHint ==
  /\ out.op = "values_iter"
  /\ iter' = [iter EXCEPT !.last =
                [op |-> "size_hint",
                 ret |-> ValuesIter_size_hint([index |-> iter.index, end |-> iter.end])]]
  /\ UNCHANGED <<builder, pushes, log, call, result, back, chunks, chunked_result>>
  /\ UNCHANGED <<offset_max, meta, table, geoms, out>>

(* ------------------------------ read_postgis --------------------------- *)
\* An item of the result stream is [err, columns, wkb]: err for an error of
\* the stream, else a row with columns a sequence of [name, type, decodes],
\* decodes telling whether row.try_get of the column returns Ok, and wkb the
\* bytes of the column named geometry.  The table builder is the sequence
\* of the processor calls it has received; a call of the builder returns Ok.
\* A call on the builder returns [kind, events].
SupportedTypes ==
  {"BOOL", "INT2", "INT4", "INT8", "FLOAT4", "FLOAT8", "VARCHAR", "CHAR",
   "JSON", "JSONB"}

\* add_postgres_geometry: geometry_begin, the geometry read from the EWKB
\* bytes, geometry_end
add_postgres_geometry(events, value) ==
  LET begun == Append(events, <<"geometry_begin">>) IN
  IF value # "ewkb" THEN [kind |-> "Err", events |-> begun]
  ELSE [kind |-> "Ok",
        events |-> begun \o <<(<<"geometry", value>>), (<<"geometry_end">>)>>]

\* add_postgres_row: the properties of the columns in order, then the
\* geometry
add_postgres_row(events, row_idx, row) ==
  LET cols == row.columns
      start == [kind |-> "Ok",
                events |-> events \o <<(<<"feature_begin", row_idx>>),
                                       (<<"properties_begin">>)>>,
                geometry |-> [present |-> FALSE, v |-> ""]]
      f[i \in 0..Len(cols)] ==
        IF i = 0 THEN start
        ELSE LET acc == f[i - 1]
                 column == cols[i]
             IN CASE acc.kind # "Ok" -> acc
                  [] column.name = "geometry" ->
                       IF column.decodes
                         THEN [acc EXCEPT !.geometry = [present |-> TRUE, v |-> row.wkb]]
                       ELSE [acc EXCEPT !.kind = "Err"]
                  [] column.type \notin SupportedTypes -> [acc EXCEPT !.kind = "Panic"]
                  [] ~column.decodes -> [acc EXCEPT !.kind = "Err"]
                  [] OTHER ->
                       [acc EXCEPT !.events =
                          Append(@, <<"property", i - 1, column.name, column.type>>)]
      props == f[Len(cols)]
      ended == Append(props.events, <<"properties_end">>)
  IN CASE props.kind # "Ok" -> [kind |-> props.kind, events |-> props.events]
       [] ~props.geometry.present -> [kind |-> "Panic", events |-> ended]
       [] OTHER ->
            LET g == add_postgres_geometry(ended, props.geometry.v) IN
            IF g.kind # "Ok" THEN g
            ELSE [kind |-> "Ok", events |-> Append(g.events, <<"feature_end", row_idx>>)]

\* initialize_from_row: the schema of the columns other than geometry, a
\* new builder, and the row added as row 0
initialize_from_row(row) ==
  IF \E i \in 1..Len(row.columns) :
       /\ row.columns[i].name # "geometry"
       /\ row.columns[i].type \notin SupportedTypes
    THEN [kind |-> "Panic", events |-> <<>>]
  ELSE add_postgres_row(<<>>, 0, row)

\* one turn of the loop of read_postgis: the stream gives an error, or a
\* row that initialises the builder or is added to it
read_postgis_row(self) ==
  LET row == Head(self.stream)
      rest == [self EXCEPT !.stream = Tail(@)]
  IN IF row.err THEN [rest EXCEPT !.st = "Err"]
     ELSE LET r == IF self.table_builder.present
                     THEN add_postgres_row(self.table_builder.events, self.row_idx, row)
                   ELSE initialize_from_row(row)
          IN IF r.kind = "Ok"
               THEN [rest EXCEPT !.table_builder = [present |-> TRUE, events |-> r.events],
                                 !.row_idx = @ + 1]
             ELSE [rest EXCEPT !.st = r.kind,
                               !.table_builder.events = r.events]

\* the end of read_postgis: the finished table, or None without a builder
read_postgis_finish(self) ==
  [self EXCEPT !.st = "Ok",
               !.ret = IF self.table_builder.present THEN "Some" ELSE "None"]

\* while let Some(row) = result_stream.try_next().await?
FetchRow ==
  /\ table.st = "Running"
  /\ table.stream # <<>>
  /\ table' = read_postgis_row(table)
  /\ UNCHANGED <<builder, pushes, log, call, result, back, chunks, chunked_result>>
  /\ UNCHANGED <<offset_max, meta, iter, geoms, out>>

\* the stream is at its end
FinishTable ==
  /\ table.st = "Running"
  /\ table.stream = <<>>
  /\ table' = read_postgis_finish(table)
  /\ UNCHANGED <<builder, pushes, log, call, result, back, chunks, chunked_result>>
  /\ UNCHANGED <<offset_max, meta, iter, geoms, out>>

(* --------------------------- specifications ---------------------------- *)
Multis == {"MultiPoint", "MultiLineString", "MultiPolygon"}

SourceTypes == {dt \in GeoDataType : dt.shape \notin {"WKB", "Rect"}}

InitWith(types) ==
  /\ builder \in {NewBuilder(dt) : dt \in types}
  /\ pushes = 0
  /\ log = <<>>
  /\ call = NoCall
  /\ offset_max = I32_MAX
  /\ geoms = <<>>
  /\ out = NoOut
  /\ meta = NoMeta
  /\ iter = NoIter
  /\ table = NoTable
  /\ result = NoResult
  /\ back = NoResult
  /\ chunks = <<>>
  /\ chunked_result = NoChunked

\* every source shape, one cast and the cast back
Init == InitWith(SourceTypes)

Next ==
  \/ PushPoint
  \/ PushLineString
  \/ PushPolygon
  \/ PushMultiPoint
  \/ PushMultiLineString
  \/ PushMultiPolygon
  \/ PushPointAsMultiPoint
  \/ PushLineStringAsMultiLineString
  \/ PushPolygonAsMultiPolygon
  \/ Cast
  \/ CastBack

Spec == Init /\ [][Next]_vars

\* Point, LineString and Polygon sources: the upward casts and the way back
InitUp ==
  InitWith({dt \in SourceTypes : dt.shape \in {"Point", "LineString", "Polygon"}})

NextUp ==
  \/ PushPoint
  \/ PushLineString
  \/ PushPolygon
  \/ Cast
  \/ CastBack

SpecUp == InitUp /\ [][NextUp]_vars

\* a MixedGeometryBuilder filled through every push method, then cast
InitMixed == InitWith({DT("Mixed", l, "Interleaved") : l \in BOOLEAN})

NextMixed ==
  \/ PushPoint
  \/ PushLineString
  \/ PushPolygon
  \/ PushMultiPoint
  \/ PushMultiLineString
  \/ PushMultiPolygon
  \/ PushPointAsMultiPoint
  \/ PushLineStringAsMultiLineString
  \/ PushPolygonAsMultiPolygon
  \/ Cast

SpecMixed == InitMixed /\ [][NextMixed]_vars

\* chunked arrays of Point, Polygon or MultiPoint chunks
InitChunked ==
  InitWith({DT(s, FALSE, "Interleaved") : s \in {"Point", "Polygon", "MultiPoint"}})

NextChunked ==
  \/ PushPoint
  \/ PushPolygon
  \/ PushMultiPoint
  \/ AddChunk
  \/ CastChunked

SpecChunked == InitChunked /\ [][NextChunked]_vars

\* a narrow MixedGeometryBuilder whose offsets are close to their width
InitOverflow ==
  /\ builder = NewBuilder(DT("Mixed", FALSE, "Interleaved"))
  /\ pushes = 0
  /\ log = <<>>
  /\ call = NoCall
  /\ result = NoResult
  /\ back = NoResult
  /\ chunks = <<>>
  /\ chunked_result = NoChunked
  /\ offset_max = NarrowMax
  /\ geoms = <<>>
  /\ out = NoOut
  /\ meta = NoMeta
  /\ iter = NoIter
  /\ table = NoTable

NextOverflow ==
  \/ AddGeom(MultiLineStringInputs)
  \/ FromVec
  \/ PushPoint
  \/ PushLineString
  \/ PushPolygon
  \/ PushMultiPoint
  \/ PushMultiLineString
  \/ PushMultiPolygon
  \/ PushPointAsMultiPoint
  \/ PushLineStringAsMultiLineString
  \/ PushPolygonAsMultiPolygon

SpecOverflow == InitOverflow /\ [][NextOverflow]_vars

\* the two-pass MultiLineString builder on every small input vector
InitTwoPass == InitWith({DT("MultiLineString", FALSE, "Interleaved")})

NextTwoPass ==
  \/ AddGeom(MultiLineStringInputs)
  \/ FromVec

SpecTwoPass == InitTwoPass /\ [][NextTwoPass]_vars

\* a LineString builder that is sliced, or the two-pass builder
InitFinished ==
  InitWith({DT("LineString", TRUE, ct) : ct \in CoordTypes})

NextFinished ==
  PushLineString \/ Slice \/ AddGeom(MultiLineStringInputs) \/ FromVec

SpecFinished == InitFinished /\ [][NextFinished]_vars

\* the Mixed builder made of a slice of optional geometries
InitFromGeometries ==
  InitWith({DT("Mixed", FALSE, ct) : ct \in CoordTypes})

NextFromGeometries ==
  \/ AddGeom(GeometryInputs)
  \/ FromNullableGeometries
  \/ AddGeom(WkbInputs)
  \/ FromWkb
  \/ TryFromWkbArray

SpecFromGeometries == InitFromGeometries /\ [][NextFromGeometries]_vars

\* a Point builder whose array is written as WKB and read back, and a
\* binary array of WKB buffers that is read
InitWkb == InitWith({DT("Point", FALSE, ct) : ct \in CoordTypes})

NextWkb ==
  \/ PushPoint
  \/ ToWkb
  \/ ParseWkb
  \/ AddGeom(Buffers)
  \/ ToGeo
  \/ FromEwkb

SpecWkb == InitWkb /\ [][NextWkb]_vars

\* MultiPoint, MultiLineString and MultiPolygon sources and one cast
InitDown == InitWith({dt \in SourceTypes : dt.shape \in Multis})

NextDown ==
  \/ PushMultiPoint
  \/ PushMultiLineString
  \/ PushMultiPolygon
  \/ Cast

SpecDown == InitDown /\ [][NextDown]_vars

\* the metadata of a first file, updated from and compared with the
\* metadata of other files
InitMetadata ==
  /\ builder = NewBuilder(DT("Point", FALSE, "Interleaved"))
  /\ pushes = 0
  /\ log = <<>>
  /\ call = NoCall
  /\ result = NoResult
  /\ back = NoResult
  /\ chunks = <<>>
  /\ chunked_result = NoChunked
  /\ offset_max = I32_MAX
  /\ geoms = <<>>
  /\ out = NoOut
  /\ meta \in {m \in MetaInputs :
                 /\ m.version = "1.1.0"
                 /\ m.primary_column = "geometry"
                 /\ m.columns["geometry"].encoding = "WKB"
                 /\ m.columns["geometry"].geometry_types = <<"Point">>
                 /\ m.columns["geometry"].crs.v # "EPSG:3857"
                 /\ m.columns["geometry"].edges.v # "spherical"}
  /\ iter = NoIter
  /\ table = NoTable

NextMetadata ==
  \/ TryUpdate
  \/ TryCompatibleWith
  \/ IsCompatibleWith

SpecMetadata == InitMetadata /\ [][NextMetadata]_vars

\* LineString and MultiPolygon arrays handed to a geometry processor, and
\* their coordinate buffers boxed
InitGeozero ==
  InitWith({DT(s, FALSE, ct) : s \in {"LineString", "MultiPolygon"},
                              ct \in CoordTypes})

NextGeozero ==
  \/ PushLineString
  \/ PushMultiPolygon
  \/ ProcessGeom
  \/ ToBoxed

SpecGeozero == InitGeozero /\ [][NextGeozero]_vars

\* a MultiPoint array and one values iterator over it, called from both ends
InitIter == InitWith({DT("MultiPoint", FALSE, ct) : ct \in CoordTypes})

NextIter ==
  \/ PushMultiPoint
  \/ ValuesIter
  \/ IterNext
  \/ IterNextBack
  \/ IterSizeHint

SpecIter == InitIter /\ [][NextIter]_vars

\* the columns of a query: at most two, with different names
QueryColumns ==
  LET Cols == {[name |-> "geometry", type |-> "BYTEA", decodes |-> TRUE],
               [name |-> "geometry", type |-> "BYTEA", decodes |-> FALSE],
               [name |-> "a", type |-> "INT4", decodes |-> TRUE],
               [name |-> "a", type |-> "INT4", decodes |-> FALSE],
               [name |-> "b", type |-> "VARCHAR", decodes |-> TRUE],
               [name |-> "c", type |-> "TEXT", decodes |-> TRUE]}
  IN {<<>>} \cup {<<c>> : c \in Cols}
       \cup {p \in Cols \X Cols : p[1].name # p[2].name}

\* the streams of a query: up to MaxLen rows of the same columns, each with
\* EWKB bytes or other bytes in its geometry, ended or broken off by an error
RowStreams ==
  LET Wkbs == {<<>>} \cup {<<v>> : v \in {"ewkb", "junk"}}
                \cup {<<v, w>> : v, w \in {"ewkb", "junk"}}
                \cup {<<u, v, w>> : u, v, w \in {"ewkb", "junk"}}
  IN {[i \in 1..Len(ws) |-> [err |-> FALSE, columns |-> cols, wkb |-> ws[i]]]
        \o tail :
        cols \in QueryColumns,
        ws \in {w \in Wkbs : Len(w) <= MaxLen},
        tail \in {<<>>, <<[err |-> TRUE, columns |-> <<>>, wkb |-> ""]>>}}

\* read_postgis over the stream of a query
InitPostgis ==
  /\ builder = NewBuilder(DT("Point", FALSE, "Interleaved"))
  /\ pushes = 0
  /\ log = <<>>
  /\ call = NoCall
  /\ result = NoResult
  /\ back = NoResult
  /\ chunks = <<>>
  /\ chunked_result = NoChunked
  /\ offset_max = I32_MAX
  /\ geoms = <<>>
  /\ out = NoOut
  /\ meta = NoMeta
  /\ iter = NoIter
  /\ \E stream \in RowStreams :
       table = [NoTable EXCEPT !.st = "Running", !.stream = stream,
                               !.rows = stream]

NextPostgis ==
  \/ FetchRow
  \/ FinishTable

SpecPostgis == InitPostgis /\ [][NextPostgis]_vars

(* ---------------------- vocabulary of the properties -------------------- *)
Singles == {"Point", "LineString", "Polygon"}

SingleOf(shape) ==
  CASE shape = "MultiPoint" -> "Point"
    [] shape = "MultiLineString" -> "LineString"
    [] shape = "MultiPolygon" -> "Polygon"
    [] OTHER -> shape

MultiOf(shape) ==
  CASE shape = "Point" -> "MultiPoint"
    [] shape = "LineString" -> "MultiLineString"
    [] shape = "Polygon" -> "MultiPolygon"
    [] OTHER -> shape

\* number of parts of the element in the 1-based slot i of a multi array
ElemParts(a, i) == a.geom_offsets[i + 1] - a.geom_offsets[i]

\* the optional scalars of an array, whatever its kind
LogicalIter(a) == IF a.dt.shape = "Mixed" THEN Mixed_iter(a) ELSE Array_iter(a)

\* same length, same nulls, same geometries in the same order
SameElements(a, b) == LogicalIter(a) = LogicalIter(b)

TotalCoords(a) ==
  IF a.dt.shape = "Mixed" THEN MixedNumCoords(a) ELSE CoordBuffer_len(a.coords)

\* coordinates of the non-null elements (a null Point still fills a slot
\* of the coordinate buffer; a null of another shape is an empty run)
NonNullCoords(a) ==
  IF a.dt.shape = "Point"
    THEN Cardinality({i \in 1..Array_len(a) : a.validity[i]})
    ELSE CoordBuffer_len(a.coords)

Casted == result.kind # "None"

CastedBack == back.kind # "None"

(* -------------------------------- C1 ----------------------------------- *)
\* C1: a cast from MultiPoint to Point, MultiLineString to LineString or
\* MultiPolygon to Polygon returns an error whenever some element of the
\* source has zero parts or two or more parts; it neither drops parts nor
\* aborts.
C1_DowncastRejectsMultiplicity ==
  ( /\ Casted
    /\ builder.dt.shape \in Multis
    /\ result.to.shape = SingleOf(builder.dt.shape)
    /\ \E i \in 1..Array_len(builder) :
         builder.validity[i] /\ ElemParts(builder, i) # 1 )
  => result.kind = "Err"

(* -------------------------------- C2 ----------------------------------- *)
\* C2: every Point array, with or without nulls, cast to MultiPoint and
\* cast back to Point succeeds both ways and gives the original array.
C2_PointRoundTrip ==
  ( /\ Casted
    /\ builder.dt.shape = "Point"
    /\ result.to.shape = "MultiPoint" )
  => /\ result.kind = "Ok"
     /\ CastedBack => back.kind = "Ok" /\ SameElements(back.arr, builder)

(* -------------------------------- C3 ----------------------------------- *)
\* C3: every LineString array cast to Mixed and cast back to LineString
\* gives the original array, element for element in the same order, and the
\* source, the Mixed array and the final array hold the same number of
\* coordinates.
C3_LineStringMixedRoundTrip ==
  ( /\ Casted
    /\ builder.dt.shape = "LineString"
    /\ result.to.shape = "Mixed" )
  => /\ result.kind = "Ok"
     /\ TotalCoords(result.arr) = TotalCoords(builder)
     /\ CastedBack =>
          /\ back.kind = "Ok"
          /\ SameElements(back.arr, builder)
          /\ TotalCoords(back.arr) = TotalCoords(builder)

(* -------------------------------- C4 ----------------------------------- *)
\* C4 as stated: Point to MultiPoint, LineString to MultiLineString and
\* Polygon to MultiPolygon always succeed, keep the length, turn every
\* non-null element into a run of one part holding that element, and leave
\* the total number of coordinates unchanged.
C4_UpwardCastKeepsTotalCoords ==
  ( /\ Casted
    /\ builder.dt.shape \in Singles
    /\ result.to.shape = MultiOf(builder.dt.shape) )
  => /\ result.kind = "Ok"
     /\ Array_len(result.arr) = Array_len(builder)
     /\ \A i \in 1..Array_len(builder) :
          builder.validity[i] =>
            /\ result.arr.validity[i]
            /\ ElemParts(result.arr, i) = 1
            /\ Array_value(result.arr, i - 1).v
                 = <<Array_value(builder, i - 1).v>>
     /\ TotalCoords(result.arr) = TotalCoords(builder)

\* C4: the upward casts always succeed, keep the length, turn every
\* non-null element into a run of one part holding that element, and the
\* result holds exactly the coordinates of the non-null source elements.
C4_UpwardCast ==
  ( /\ Casted
    /\ builder.dt.shape \in Singles
    /\ result.to.shape = MultiOf(builder.dt.shape) )
  => /\ result.kind = "Ok"
     /\ Array_len(result.arr) = Array_len(builder)
     /\ \A i \in 1..Array_len(builder) :
          builder.validity[i] =>
            /\ result.arr.validity[i]
            /\ ElemParts(result.arr, i) = 1
            /\ Array_value(result.arr, i - 1).v
                 = <<Array_value(builder, i - 1).v>>
     /\ TotalCoords(result.arr) = NonNullCoords(builder)

C4_Witness ==
  /\ builder.dt.shape = "Point"
  /\ \E i, j \in 1..Array_len(builder) :
       builder.validity[i] /\ ~builder.validity[j]
  /\ result.kind = "Ok"
  /\ result.to.shape = "MultiPoint"
  /\ Array_len(result.arr) = Array_len(builder)
  /\ TotalCoords(result.arr) < TotalCoords(builder)

(* -------------------------------- C5 ----------------------------------- *)
PlainShapes == Singles \cup Multis

\* the tags a cast of a Mixed array to `shape` accepts: the shape itself
\* and its single/multi counterpart
Family(shape) ==
  {default_ordering(SingleOf(shape)), default_ordering(MultiOf(shape))}

C6_SameShapeCast ==
  ( /\ Casted
    /\ builder.dt.shape \in PlainShapes \cup {"Mixed"} )
  => /\ result.to.shape = builder.dt.shape =>
          /\ result.kind = "Ok"
          /\ result.arr.dt = result.to
          /\ SameElements(result.arr, Source)
     /\ can_cast_types(builder.dt, result.to) = "true" => result.kind = "Ok"

(* -------------------------------- C7 ----------------------------------- *)
\* the cast of every chunk on its own
ChunkCasts == [k \in 1..Len(chunks) |-> cast(chunks[k], chunked_result.to)]

\* C7: for every target type the chunked cast returns the chunkwise casts,
\* as many chunks in the same order, and returns an error when the cast of
\* some chunk does.
C7_ChunkedCastIsChunkwise ==
  chunked_result.kind # "None" =>
    /\ (\A k \in 1..Len(chunks) : ChunkCasts[k].kind = "Ok") =>
         /\ chunked_result.kind = "Ok"
         /\ chunked_result.chunks = [k \in 1..Len(chunks) |-> ChunkCasts[k].arr]
    /\ ( /\ \E k \in 1..Len(chunks) : ChunkCasts[k].kind = "Err"
         /\ \A k \in 1..Len(chunks) : ChunkCasts[k].kind # "Panic" )
         => chunked_result.kind = "Err"

(* -------------------------------- C8 ----------------------------------- *)
\* C8: cast never aborts: for every source array (Point to MultiPolygon,
\* GeometryCollection, Mixed, with or without nulls) and every target type
\* it returns an array or an error.
C8_CastIsTotal == Casted => result.kind \in {"Ok", "Err"}

(* -------------------------------- C10 ---------------------------------- *)
\* what the child holds after a push of log entry e
Stored(e) ==
  IF e.value = None THEN None
  ELSE IF e.value.type = builder[e.child].dt.shape THEN e.value
  ELSE Geom(builder[e.child].dt.shape, <<e.value.v>>)

\* C10: after any sequence of successful push_* calls on a
\* MixedGeometryBuilder, types and offsets have one entry per push; entry i
\* names the child the i-th push went to and the slot of that child holding
\* the pushed geometry, which is the number of earlier pushes into the same
\* child; and the counter of every child equals the length of its builder.
C10_MixedBuilderConsistent ==
  builder.dt.shape = "Mixed" =>
    /\ Len(builder.types) = pushes
    /\ Len(builder.offsets) = pushes
    /\ Len(log) = pushes
    /\ \A i \in 1..pushes :
         LET child == child_of(builder.types[i]) IN
         /\ child = log[i].child
         /\ builder.offsets[i] >= 0
         /\ builder.offsets[i] < Array_len(builder[child])
         /\ builder.offsets[i]
              = Cardinality({j \in 1..(i - 1) : log[j].child = child})
         /\ Array_get(builder[child], builder.offsets[i]) = Stored(log[i])
    /\ builder.point_counter = Array_len(builder.points)
    /\ builder.line_string_counter = Array_len(builder.line_strings)
    /\ builder.polygon_counter = Array_len(builder.polygons)
    /\ builder.multi_point_counter = Array_len(builder.multi_points)
    /\ builder.multi_line_string_counter = Array_len(builder.multi_line_strings)
    /\ builder.multi_polygon_counter = Array_len(builder.multi_polygons)

C10_Witness ==
  /\ builder.dt.shape = "Mixed"
  /\ pushes = 2
  /\ builder.types = <<default_ordering("MultiPoint"), default_ordering("MultiPoint")>>
  /\ builder.offsets = <<0, 1>>
  /\ log[1].value.type = "Point"
  /\ log[2].value.type = "MultiPoint"
  /\ builder.point_counter = 0

(* -------------------------------- C11 ---------------------------------- *)
Counters ==
  {"point_counter", "line_string_counter", "polygon_counter",
   "multi_point_counter", "multi_line_string_counter", "multi_polygon_counter"}

\* C11: a push_* call on a MixedGeometryBuilder that returns Err leaves
\* types, offsets and every counter as they were before the call, so the
\* two sequences have the same length and every counter equals the length
\* of its child builder.
C11_FailedPushRolledBack ==
  (builder.dt.shape = "Mixed" /\ call.st = "Err") =>
    /\ builder.types = call.before.types
    /\ builder.offsets = call.before.offsets
    /\ \A c \in Counters : builder[c] = call.before[c]
    /\ Len(builder.types) = Len(builder.offsets)
    /\ builder.line_string_counter = Array_len(builder.line_strings)
    /\ builder.polygon_counter = Array_len(builder.polygons)
    /\ builder.multi_point_counter = Array_len(builder.multi_points)
    /\ builder.multi_line_string_counter = Array_len(builder.multi_line_strings)
    /\ builder.multi_polygon_counter = Array_len(builder.multi_polygons)

(* -------------------------------- C12 ---------------------------------- *)
RECURSIVE InputNumLines(_)
InputNumLines(input) ==
  IF input = <<>> THEN 0
  ELSE (IF Head(input).type = "None" THEN 0 ELSE Len(Head(input).v))
         + InputNumLines(Tail(input))

Built == out.op = "from_vec"

\* C12: in the array the two-pass MultiLineString builder makes of a vector
\* of optional multi line strings, a None at position i is a null element
\* with a zero-length run in the geometry offsets, it adds no ring offset
\* and no coordinate, and every Some element is valid (with one run entry
\* per line string).
C12_NullPropagation ==
  Built =>
    /\ out.kind = "Ok"
    /\ Len(out.arr.geom_offsets) = Len(geoms) + 1
    /\ \A i \in 1..Len(geoms) :
         IF geoms[i].type = "None"
           THEN /\ is_null(out.arr, i - 1)
                /\ out.arr.geom_offsets[i + 1] = out.arr.geom_offsets[i]
           ELSE /\ ~is_null(out.arr, i - 1)
                /\ out.arr.geom_offsets[i + 1]
                     = out.arr.geom_offsets[i] + Len(geoms[i].v)
    /\ Len(out.arr.ring_offsets) - 1 = InputNumLines(geoms)
    /\ CoordBuffer_len(out.arr.coords) = InputNumCoords(geoms)

C12_Witness ==
  /\ Built
  /\ out.kind = "Ok"
  /\ Len(geoms) = 2
  /\ geoms[1].type = "None"
  /\ geoms[2].type = "MultiLineString"
  /\ InputNumCoords(geoms) > 0
  /\ is_null(out.arr, 0)
  /\ ~is_null(out.arr, 1)

(* -------------------------------- C14 ---------------------------------- *)
NonDecreasing(offsets) ==
  \A i \in 1..(Len(offsets) - 1) : offsets[i] <= offsets[i + 1]

\* C14: after first_pass and second_pass the geometry offsets have one run
\* per input element and end at the number of runs of the ring offsets,
\* the ring offsets end at the number of coordinates of the coordinate
\* buffer, and both offset buffers start at 0 and never decrease.
C14_CapacityExact ==
  Built =>
    /\ out.kind = "Ok"
    /\ Len(out.arr.geom_offsets) - 1 = Len(geoms)
    /\ last(out.arr.geom_offsets) = Len(out.arr.ring_offsets) - 1
    /\ last(out.arr.ring_offsets) = CoordBuffer_len(out.arr.coords)
    /\ out.arr.geom_offsets[1] = 0
    /\ out.arr.ring_offsets[1] = 0
    /\ NonDecreasing(out.arr.geom_offsets)
    /\ NonDecreasing(out.arr.ring_offsets)

C14_Witness ==
  /\ Built
  /\ out.kind = "Ok"
  /\ Len(geoms) = 2
  /\ last(out.arr.geom_offsets) > 2
  /\ last(out.arr.ring_offsets) > 2
  /\ last(out.arr.ring_offsets) = CoordBuffer_len(out.arr.coords)

(* -------------------------------- C15 ---------------------------------- *)
\* C15: with the narrow offset width, a push or build that would take an
\* offset past the largest narrow offset returns an error: it does not
\* abort, and no offset stored exceeds the width.
C15_OverflowIsTypedError ==
  /\ call.st # "Panic"
  /\ Built =>
       /\ out.kind \in {"Ok", "Err"}
       /\ out.kind = "Ok" => fits(out.arr)
  /\ \A c \in ChildNames : fits(builder[c])

(* -------------------------------- C16 ---------------------------------- *)
Sliced == out.op = "slice"

\* the array that was sliced
SliceSource == Array_from(builder)

\* the bitmap is there exactly when an element is null, one bit per element
ValidityIffNulls(a, nulls, len) ==
  /\ a.validity.present <=> nulls # {}
  /\ a.validity.present => Len(a.validity.bits) = len
  /\ \A i \in 1..len : is_null(a, i - 1) <=> i \in nulls

\* C16: an array carries a validity bitmap exactly when it has a null
\* element, and then the bitmap has one bit per element: for the array
\* finished by the two-pass MultiLineString builder and for the array
\* returned by LineStringArray.slice, whatever its source carried.
C16_ValidityIffNulls ==
  /\ (Built /\ out.kind = "Ok") =>
       ValidityIffNulls(out.arr,
                        {i \in 1..Len(geoms) : geoms[i].type = "None"},
                        Len(geoms))
  /\ (Sliced /\ out.kind = "Ok") =>
       ValidityIffNulls(out.arr,
                        {i \in 1..out.args[2] :
                           log[out.args[1] + i].value.type = "None"},
                        out.args[2])

\* a window without nulls cut from a source with a bitmap
C16_Witness ==
  /\ Sliced
  /\ out.kind = "Ok"
  /\ out.args = <<1, 1>>
  /\ SliceSource.validity.present
  /\ ~out.arr.validity.present

FromGeometries == out.op = "from_nullable_geometries"

\* C13: push_geometry appends one element for every optional input value:
\* after the calls made for n inputs without a geometry collection the
\* builder holds n elements, every None input is a null element of the
\* finished array, and the capacity counted for the same input accounts
\* for every element pushed.
C13_OneElementPerInput ==
  (FromGeometries
     /\ \A i \in 1..Len(geoms) : geoms[i].type # "GeometryCollection") =>
    /\ out.kind = "Ok"
    /\ Mixed_len(out.arr) = Len(geoms)
    /\ \A i \in 1..Len(geoms) :
         geoms[i].type = "None" => Mixed_iter(out.arr)[i] = None
    /\ out.args[1] = Len(geoms)

(* -------------------------------- C17 ---------------------------------- *)
FromWkbObjects == out.op \in {"from_wkb", "try_from_wkb_array"}

\* a collection that does not wrap exactly one geometry that is not
\* itself a collection
UnsupportedNesting(g) ==
  /\ g.type = "GeometryCollection"
  /\ ~(Len(g.v) = 1 /\ g.v[1].type # "GeometryCollection")

\* C17: from_wkb and the WKBArray conversion never abort; they return an
\* error when an element is a geometry collection that does not wrap
\* exactly one plain geometry, and otherwise return a builder with one
\* element per WKB element, null elements included.
C17_FromWkbFailsTyped ==
  FromWkbObjects =>
    /\ out.kind # "Panic"
    /\ IF \E i \in 1..Len(geoms) :
            /\ geoms[i].type = "WKB"
            /\ UnsupportedNesting(to_wkb_object(geoms[i]))
         THEN out.kind = "Err"
         ELSE /\ out.kind = "Ok"
              /\ Mixed_len(out.arr) = Len(geoms)

(* -------------------------------- C19 ---------------------------------- *)
\* C19: writing a PointArray as a WKBArray succeeds, and reading that
\* WKBArray back gives a PointArray with the same length, the same null
\* positions and the same coordinates.
C19_PointWkbRoundTrip ==
  out.op = "to_wkb" =>
    /\ out.kind = "Ok"
    /\ Len(WKBArray_iter(out.arr)) = Array_len(Array_from(builder))
    /\ back.kind # "None" =>
         /\ back.kind = "Ok"
         /\ Finished_iter(back.arr) = Finished_iter(Array_from(builder))

(* -------------------------------- C20 ---------------------------------- *)
\* whether the buffer ends before the geometry its header declares
Truncated(wkb) == wkb.type = "WKB" /\ to_geo(wkb.v).st = "Err"

\* C20: reading a WKB buffer that ends before the geometry it declares
\* returns an error and never panics, both when a WKB scalar is turned
\* into a geometry and when from_ewkb reads a binary array.
C20_TruncatedIsTypedError ==
  /\ out.op = "to_geo" =>
       IF Truncated(geoms[out.args[1]]) THEN out.kind = "Err"
       ELSE out.kind = "Ok"
  /\ out.op = "from_ewkb" =>
       IF \E i \in 1..Len(geoms) : Truncated(geoms[i]) THEN out.kind = "Err"
       ELSE out.kind = "Ok"

(* -------------------------------- C24 ---------------------------------- *)
\* every element of the multi source is valid and has exactly one part
SinglePartSource ==
  /\ builder.dt.shape \in Multis
  /\ \A i \in 1..Array_len(builder) :
       builder.validity[i] /\ ElemParts(builder, i) = 1

\* C24: when every element of a MultiPoint, MultiLineString or MultiPolygon
\* array is non-null and has exactly one part, the cast to Point,
\* LineString or Polygon returns Ok with an array of the same length whose
\* element i is the single part of the source element i, and the same total
\* number of coordinates.
C24_SinglePartDowncast ==
  ( /\ Casted
    /\ SinglePartSource
    /\ result.to.shape = SingleOf(builder.dt.shape) )
  => /\ result.kind = "Ok"
     /\ Array_len(result.arr) = Array_len(builder)
     /\ \A i \in 1..Array_len(builder) :
          /\ result.arr.validity[i]
          /\ Array_value(result.arr, i - 1).v = Array_value(builder, i - 1).v[1]
     /\ TotalCoords(result.arr) = TotalCoords(builder)

C24_Witness ==
  /\ Casted
  /\ SinglePartSource
  /\ builder.dt.shape = "MultiPoint"
  /\ result.to.shape = "Point"
  /\ Array_len(builder) = 2
  /\ result.kind = "Ok"
  /\ Array_len(result.arr) = 2

(* -------------------------------- C21 ---------------------------------- *)
\* the metadata of the other file of a call that was given one
Compared ==
  /\ out.op \in {"try_update", "try_compatible_with", "is_compatible_with"}
  /\ out.arr.present

\* the edges of a column: planar where the field is absent
EdgesOf(column) == IF column.edges.present THEN column.edges.v ELSE "planar"

\* a column of both files has a crs on one side only, two different crs,
\* or two different edge types
Conflicting ==
  \E c \in DOMAIN out.args[1].columns \cap DOMAIN out.arr.v.columns :
    LET left == out.args[1].columns[c]
        right == out.arr.v.columns[c]
    IN \/ left.crs # right.crs
       \/ EdgesOf(left) # EdgesOf(right)

\* C21: try_compatible_with, is_compatible_with and try_update fail
\* whenever a geometry column has a conflicting crs (different values, or
\* present on one side only) or a conflicting edge type (planar against
\* spherical); they succeed only when crs and edge type agree.
C21_ConflictIsRejected ==
  (Compared /\ Conflicting) => out.kind \in {"Err", "false"}

(* -------------------------------- C23 ---------------------------------- *)
\* C23: after a successful try_update(other), for every column of self:
\* where both sides have a bbox of length 4 or 6 the bbox is the
\* component-wise union (the smaller lower bounds, the larger upper
\* bounds), where only the other side has a bbox it is adopted, where the
\* other side has none the bbox is unchanged; every field other than bbox
\* is unchanged.
C23_BboxUnion ==
  (out.op = "try_update" /\ out.kind = "Ok") =>
    /\ meta.version = out.args[1].version
    /\ meta.primary_column = out.args[1].primary_column
    /\ DOMAIN meta.columns = DOMAIN out.args[1].columns
    /\ \A c \in DOMAIN meta.columns :
         LET old == out.args[1].columns[c]
             other == out.arr.v.columns[c].bbox
             new == meta.columns[c]
         IN /\ [new EXCEPT !.bbox = old.bbox] = old
            /\ ~other.present => new.bbox = old.bbox
            /\ (other.present /\ ~old.bbox.present) => new.bbox = other
            /\ (other.present /\ old.bbox.present /\ Len(old.bbox.v) \in {4, 6}) =>
                 /\ new.bbox.present
                 /\ Len(new.bbox.v) = Len(old.bbox.v)
                 /\ \A k \in 1..Len(old.bbox.v) :
                      /\ new.bbox.v[k] \in {old.bbox.v[k], other.v[k]}
                      /\ IF 2 * k <= Len(old.bbox.v)
                           THEN /\ new.bbox.v[k] <= old.bbox.v[k]
                                /\ new.bbox.v[k] <= other.v[k]
                           ELSE /\ new.bbox.v[k] >= old.bbox.v[k]
                                /\ new.bbox.v[k] >= other.v[k]

\* a bbox of length 6 has grown on both sides, beyond both files' boxes
C23_Witness ==
  /\ out.op = "try_update"
  /\ out.kind = "Ok"
  /\ out.args[1].columns["geometry"].bbox.present
  /\ Len(meta.columns["geometry"].bbox.v) = 6
  /\ meta.columns["geometry"].bbox # out.args[1].columns["geometry"].bbox
  /\ meta.columns["geometry"].bbox # out.arr.v.columns["geometry"].bbox

(* -------------------------------- C27 ---------------------------------- *)
\* C27: a try_update that returns an error (the other file has no "geo"
\* metadata, or the two metadata are incompatible) leaves self completely
\* unchanged, including the bbox of every column.
C27_FailedUpdateChangesNothing ==
  (out.op = "try_update" /\ out.kind # "Ok") => meta = out.args[1]

\* the update fails although the other file has a bbox self has not
C27_Witness ==
  /\ out.op = "try_update"
  /\ out.kind = "Err"
  /\ out.arr.present
  /\ out.arr.v.columns["geometry"].bbox.present
  /\ out.arr.v.columns["geometry"].bbox # out.args[1].columns["geometry"].bbox
  /\ meta = out.args[1]

(* -------------------------------- C22 ---------------------------------- *)
\* C22: process_geom of an array of n >= 1 line strings calls
\* geometrycollection_begin(n), then for every geometry index g in
\* ascending order linestring_begin with the size offsets[g+1] - offsets[g]
\* and the index g, then that many xy calls with the coordinates of the line
\* in order and the indices 0, 1, ... from the start of the line, then
\* linestring_end(g), and at last one geometrycollection_end; there is no
\* other call.
C22_EventsWellNested ==
  ( /\ out.op = "process_geom"
    /\ builder.dt.shape = "LineString"
    /\ Array_len(builder) >= 1 )
  => LET n == Array_len(builder)
         offsets == builder.geom_offsets
         events == out.arr
         begin(g) == 2 + offsets[g + 1] + 2 * g
     IN /\ out.kind = "Ok"
        /\ Len(events) = 2 + 2 * n + offsets[n + 1]
        /\ events[1] = <<"geometrycollection_begin", n, 0>>
        /\ events[Len(events)][1] = "geometrycollection_end"
        /\ \A g \in 0..(n - 1) :
             LET size == offsets[g + 2] - offsets[g + 1]
                 line == log[g + 1].value.v
             IN /\ size = Len(line)
                /\ events[begin(g)] = <<"linestring_begin", TRUE, size, g>>
                /\ \A j \in 0..(size - 1) :
                     events[begin(g) + 1 + j]
                       = <<"xy", line[j + 1][1], line[j + 1][2], j>>
                /\ events[begin(g) + 1 + size] = <<"linestring_end", TRUE, g>>

\* two line strings of MaxParts coordinates each
C22_Witness ==
  /\ out.op = "process_geom"
  /\ out.kind = "Ok"
  /\ builder.dt.shape = "LineString"
  /\ builder.geom_offsets = <<0, MaxParts, 2 * MaxParts>>
  /\ Len(out.arr) = 6 + 2 * MaxParts

(* -------------------------------- C29 ---------------------------------- *)
\* C29: process_geom of a LineString or MultiPolygon array without
\* elements completes without underflow or panic: the index handed to
\* geometrycollection_end has not gone below zero, and the calls are
\* geometrycollection_begin(0) and geometrycollection_end and no other.
C29_EmptyArrayCompletes ==
  (out.op = "process_geom" /\ Array_len(builder) = 0)
  => /\ out.kind = "Ok"
     /\ Len(out.arr) = 2
     /\ out.arr[1] = <<"geometrycollection_begin", 0, 0>>
     /\ out.arr[2][1] = "geometrycollection_end"
     /\ out.arr[2][2] # "usize::MAX"

(* -------------------------------- C30 ---------------------------------- *)
\* C30: CoordBuffer::to_boxed returns, for the Interleaved and for the
\* Separated layout, a buffer of the same layout, length and coordinates
\* as the receiver.
C30_ToBoxedReturnsCopy ==
  out.op = "to_boxed" => (out.kind = "Ok" /\ out.arr = builder.coords)

(* -------------------------------- C28 ---------------------------------- *)
\* C28: converting a PointArray of length n to a WKBArray gives, nulls
\* included, a well-formed binary array of length n: n + 1 offsets, the
\* validity of the source, POINT_WKB_SIZE bytes for every non-null element
\* and none for a null one, and POINT_WKB_SIZE bytes of values times the
\* number of non-null elements.
C28_WkbArrayWellFormed ==
  out.op = "to_wkb" =>
    LET p == Array_from(builder)
        n == Array_len(p)
        w == out.arr
    IN /\ out.kind = "Ok"
       /\ Len(w.offsets) = n + 1
       /\ w.validity = p.validity
       /\ \A i \in 1..n :
            w.offsets[i + 1] - w.offsets[i] =
              IF is_null(p, i - 1) THEN 0 ELSE POINT_WKB_SIZE
       /\ Len(w.values) =
            POINT_WKB_SIZE * Cardinality({i \in 1..n : ~is_null(p, i - 1)})

(* -------------------------------- C26 ---------------------------------- *)
\* the calls of op that returned a scalar, in order
YieldedBy(op) == SelectSeq(iter.yielded, LAMBDA y : y.op = op)

\* C26 (states): for a values iterator over a MultiPoint array of length n,
\* under any interleaving of next and next_back, 0 <= index <= end <= n;
\* next yields the slots 0, 1, ... in ascending order and next_back the
\* slots n-1, n-2, ... in descending order, each with the scalar of its
\* slot; no slot is yielded twice, and when index = end every slot of 0..n-1
\* has been yielded; size_hint returns end - index as both bounds, which is
\* the number of slots not yet yielded.
C26_IterState ==
  out.op = "values_iter" =>
    LET n == Array_len(builder)
        fwd == YieldedBy("next")
        bwd == YieldedBy("next_back")
    IN /\ 0 <= iter.index /\ iter.index <= iter.end /\ iter.end <= n
       /\ \A k \in 1..Len(fwd) : fwd[k].at = k - 1
       /\ \A k \in 1..Len(bwd) : bwd[k].at = n - k
       /\ \A k \in 1..Len(iter.yielded) :
            iter.yielded[k].item = Array_value(builder, iter.yielded[k].at)
       /\ \A j, k \in 1..Len(iter.yielded) :
            iter.yielded[j].at = iter.yielded[k].at => j = k
       /\ iter.index = iter.end =>
            {iter.yielded[k].at : k \in 1..Len(iter.yielded)} = 0..(n - 1)
       /\ iter.last.op = "size_hint" =>
            /\ iter.last.ret = <<iter.end - iter.index,
                                 [present |-> TRUE, v |-> iter.end - iter.index]>>
            /\ iter.end - iter.index = n - Len(iter.yielded)

\* C26 (steps): once index = end, a call of next or next_back returns None
\* and leaves index, end and the yielded slots as they were.
C26_IterStep ==
  (out.op = "values_iter" /\ iter.index = iter.end /\ iter' # iter)
  => /\ iter'.index = iter.index
     /\ iter'.end = iter.end
     /\ iter'.yielded = iter.yielded
     /\ iter'.last.op \in {"next", "next_back"} => iter'.last.ret = None

\* C26: the iterator yields every slot exactly once from its two ends and
\* stays exhausted.
C26_DoubleEndedIteration == []C26_IterState /\ [][C26_IterStep]_vars

\* an array of MaxLen elements consumed from both ends, and a call after
\* the last slot was yielded
C26_Witness ==
  /\ out.op = "values_iter"
  /\ Array_len(builder) = MaxLen
  /\ iter.index = iter.end
  /\ Len(YieldedBy("next")) > 0
  /\ Len(YieldedBy("next_back")) > 0
  /\ iter.last.op \in {"next", "next_back"}
  /\ iter.last.ret = None

(* -------------------------------- C25 ---------------------------------- *)
\* the calls the builder receives for the row at row_idx: the feature, its
\* properties, one per column other than geometry, and after them its
\* geometry
RowEvents(row, row_idx) ==
  LET cols == row.columns
      props[i \in 0..Len(cols)] ==
        IF i = 0 THEN <<>>
        ELSE IF cols[i].name = "geometry" THEN props[i - 1]
        ELSE Append(props[i - 1], <<"property", i - 1, cols[i].name, cols[i].type>>)
  IN <<(<<"feature_begin", row_idx>>), (<<"properties_begin">>)>>
       \o props[Len(cols)]
       \o <<(<<"properties_end">>), (<<"geometry_begin">>),
            (<<"geometry", row.wkb>>), (<<"geometry_end">>),
            (<<"feature_end", row_idx>>)>>

\* the calls for the first n rows of the stream, numbered from 0
StreamEvents(n) ==
  LET all[k \in 0..n] ==
        IF k = 0 THEN <<>> ELSE all[k - 1] \o RowEvents(table.rows[k], k - 1)
  IN all[n]

\* whether s is the beginning of t
IsPrefix(s, t) == Len(s) <= Len(t) /\ SubSeq(t, 1, Len(s)) = s

\* C25: read_postgis does not panic; it returns None exactly when the
\* query gives no row; the rows it has read were each added to the table
\* builder once, in the order of the stream and numbered 0, 1, ..., n-1,
\* each as feature_begin, properties_begin, one property per column other
\* than geometry, properties_end, geometry_begin, the geometry,
\* geometry_end, feature_end, so that no geometry is written before the
\* properties of its row are finished.
C25_RowsAddedInOrder ==
  table.st # "None" =>
    LET n == Len(SelectSeq(table.rows, LAMBDA r : ~r.err))
        events == table.table_builder.events
    IN /\ table.st # "Panic"
       /\ table.st = "Running" => events = StreamEvents(table.row_idx)
       /\ IsPrefix(events, StreamEvents(n))
       /\ table.st = "Ok" =>
            /\ table.ret = "None" <=> n = 0
            /\ table.row_idx = n
            /\ events = StreamEvents(n)

====
